---- MODULE Spec2Model ----
(***************************************************************************)
(* Model of the page-fault attack driver on libjpeg                        *)
(* (app/libjpeg/attack/src/main.rs) and of the profiler: the PageAccess    *)
(* algebra and the page-table shadow (app/profiler/src/lib.rs) and the     *)
(* TLB simulator, PAM mirror, attacker and trap handler of tlblur          *)
(* (app/profiler/src/tlblur.rs).                                           *)
(*                                                                         *)
(* Specifications:                                                         *)
(*   Spec           the attack driver: trace replay (attack_vcd), the      *)
(*                  enclave page-fault attack (fault_handler) and the      *)
(*                  ocall debugging mode (ocall_* handlers)                *)
(*   SpecDriver     the steps of sgx::attack_enclave around the enclave    *)
(*                  calls, with the failures of its assertions             *)
(*   SpecNext       the pure function JpegState::next on drawn inputs      *)
(*   SpecPageAccess the pure functions PageAccess::covers / union          *)
(*   SpecShadow     the page-table shadow (PageTable) and its sampling     *)
(*   SpecTlb        the simulated TLB (HardwareTLB, Set)                   *)
(*   SpecPam        the PAM mirror (PAM::update_pam)                       *)
(*   SpecTrap       the profiler's trap handler (the closure of tlblur)    *)
(*   SpecMutex      the handlers, the main thread and the mutex            *)
(*   SpecDump       the VCD trace sink (VCDDumper<RSet>, dump.rs) on drawn *)
(*                  items                                                  *)
(*   SpecTwin       two runs of the trap handler side by side, with the    *)
(*                  SingleStep attacker and the Perfect TLB                *)
(***************************************************************************)
EXTENDS Integers, Sequences, FiniteSets, TLC

VARIABLES
    \* ---- attack driver (GlobalState / locals of attack_vcd) ----
    mode,           \* Args.mode: "trace", "enclave" or "ocalls"
    state,          \* JpegState
    reconstruct,    \* JpegReconstruct
    working_set,    \* GlobalState.working_set (VecDeque<usize>)
    prev_page,      \* GlobalState.prev_page
    use_ocalls,     \* GlobalState.use_ocalls
    has_aexnotify,  \* GlobalState.has_aexnotify / Args.aexnotify
    ZERO_COUNT,     \* static ZERO_COUNT
    SKIP_FIRST,     \* static SKIP_FIRST
    revoked,        \* pages whose access is currently revoked (libsgxstep)
    \* ---- history variables (not program state) ----
    dc_faults,      \* DataCount transitions since the last non-DataCount state
    dc_exits,       \* transitions so far from a DataCount state to another state
    run_ended,      \* the replay loop or the enclave calls are over and the image is saved
    s1_pos,         \* length of the prefix of ScenarioS1 the faults so far equal, -1 once they differ
    fault_hist,     \* the last two pages fault_handler was called on, oldest first
                    \* (kept with AEX-Notify only)
    restored_last,  \* the pages the last call of fault_handler restored
    \* ---- JpegState::next applied to drawn inputs ----
    nx_self, nx_page, nx_aex, nx_done, nx_result,
    \* ---- PageAccess::covers / union applied to drawn inputs ----
    pa_a, pa_b, pa_done, pa_covers, pa_union,
    \* ---- profiler: PageTable (lib.rs) ----
    page_table_map, \* PageTable.page_table_map with the A/D/P bits of each entry
    pt_pages,       \* PageTable.pages, the last sample
    pt_last,        \* history: the last operation on the page table
    pt_touched,     \* history: an A bit was set since the last clear_all_ad_bits
    pt_prev,        \* history: the sample that the last sample replaced
    \* ---- profiler: HardwareTLB (tlblur.rs) ----
    hw_tlb,         \* HardwareTLB: Perfect(pages) or SetAssociative{sets, num_sets, ways_per_set}
    tlb_hist,       \* history: the accesses inserted into the sets since the last flush, in order
    tlb_inserted,   \* history: the set of accesses inserted since the last flush
    tlb_last,       \* history: the last operation on the TLB
    \* ---- profiler: PAM (tlblur.rs) and the enclave memory it mirrors ----
    enc_pam,        \* the enclave's page access map: enc_pam[i + 1] is the counter of page i
    enc_counter,    \* the enclave's PAM counter
    pam,            \* PAM: pam_buffer, pam_active, pam_counter
    pam_last,       \* history: the last operation, "new", "enclave" or "update"
    pam_gap,        \* history: the enclave's PAM updates since the last update_pam
    s5_pos,         \* history: the steps of scenario S5 the enclave has made, -1 off the scenario
    \* ---- profiler: the trap handler closure of tlblur's main ----
    attacker,          \* Attacker: kind, live_pages, observe_ptes
    pte_observations,  \* PageTableObservations, as the set of its values
    first_run,         \* first_run
    no_prefetch,       \* Args.no_prefetch
    layout,            \* the enclave's pages: stack_page (-1 when rsp is outside the
                       \* enclave), code_page, counter_page, pam_page
    dumper,            \* the main trace: ts, the wires that are high, the last frame written
    pam_dumper,        \* the trace of --debug-pam (some = FALSE without it)
    hwtlb_dumper,      \* the trace of --debug-sim-hwtlb (some = FALSE without it, and
                       \* with a set-associative TLB, whose iter() is todo!())
    trap_count,        \* history: the traps handled
    trap_interrupt,    \* history: can_trigger_interrupt at the last trap
    trap_missing,      \* history: the sampled accesses that missed the TLB at the last trap
    last_interrupt,    \* history: the pages sampled at the last interrupt (seen = FALSE before it)
    trap_entry,        \* history: live_pages and last_interrupt when the last trap began
    frames_seen,       \* history: the accesses that the Stealthy attacker's frames have written so far
    \* ---- the handlers and the mutex (lib.rs, attack/src/main.rs) ----
    mx_mode,           \* "tlblur", or the attack driver with the fault handler ("fault")
                       \* or without it ("ocall")
    main_pc,           \* where the main thread is
    h_kind,            \* the handler that is running, "none" when there is none
    h_pc,              \* where the running handler is
    mutex_owner,       \* who holds TRAP_HANDLER / GLOBAL_STATE: "none", "handler", "main"
    mx_skip_first,     \* SKIP_FIRST as the handlers of this specification see it
    shared_writes,     \* the accesses made so far to the state inside the mutex
    atomic_writes,     \* the stores made so far to ZERO_COUNT and SKIP_FIRST
    last_write,        \* history: who made the last access, to what, who held the
                       \* mutex and whether an enclave call was in progress
    \* ---- sgx::attack_enclave (attack/src/main.rs) ----
    drv_pc,            \* where attack_enclave is
    args_aexnotify,    \* Args.aexnotify
    enclave,           \* the enclave: "none", "alive" or "destroyed"
    handler_registered,\* register_fault_handler has been called
    drv_events,        \* the handler calls made so far
    drv_log,           \* history: the steps of attack_enclave so far, in order
    \* ---- VCDDumper<RSet> (profiler/src/dump.rs) ----
    vcd,               \* the dumper: wires, timestamp and what the last step wrote
    vcd_items,         \* history: the items of the last write_page_accesses
    \* ---- two runs of the trap handler side by side ----
    tw_a,              \* the state captured by the closure in the first run
    tw_b,              \* the state captured by the closure in the second run
    tw_enc,            \* the enclave's page access map and counter, the same in both runs
    tw_cfg,            \* no_prefetch and the layout (stack pointer), the same in both runs
    tw_trace_a,        \* history: the frames of the main trace of the first run
    tw_trace_b,        \* history: the frames of the main trace of the second run
    tw_agree,          \* history: at every trap so far the two runs missed the TLB on the same accesses
    tw_differed,       \* history: at some trap the two runs sampled different accesses
    tw_traps           \* the traps taken so far

jpegVars == <<mode, state, reconstruct, working_set, prev_page, use_ocalls,
              has_aexnotify, ZERO_COUNT, SKIP_FIRST, revoked, dc_faults, s1_pos,
              fault_hist, restored_last, dc_exits, run_ended>>
nextVars == <<nx_self, nx_page, nx_aex, nx_done, nx_result>>
paVars   == <<pa_a, pa_b, pa_done, pa_covers, pa_union>>
shadowVars == <<page_table_map, pt_pages, pt_last, pt_touched, pt_prev>>
tlbVars  == <<hw_tlb, tlb_hist, tlb_inserted, tlb_last>>
pamVars  == <<enc_pam, enc_counter, pam, pam_last, pam_gap, s5_pos>>
trapVars == <<attacker, pte_observations, first_run, no_prefetch, layout, dumper,
              pam_dumper, hwtlb_dumper, trap_count, trap_interrupt, trap_missing,
              last_interrupt, trap_entry, frames_seen>>
mutexVars == <<mx_mode, main_pc, h_kind, h_pc, mutex_owner, mx_skip_first,
               shared_writes, atomic_writes, last_write>>
dumpVars == <<vcd, vcd_items>>
twinVars == <<tw_a, tw_b, tw_enc, tw_cfg, tw_trace_a, tw_trace_b, tw_agree, tw_differed,
              tw_traps>>
profVars == <<shadowVars, tlbVars, pamVars, trapVars, mutexVars, dumpVars, twinVars>>
driverVars == <<drv_pc, args_aexnotify, enclave, handler_registered, drv_events, drv_log>>
baseVars == <<jpegVars, nextVars, paVars, driverVars>>
vars     == <<jpegVars, nextVars, paVars, profVars, driverVars>>

(***************************************************************************)
(* Bounds of the model                                                     *)
(***************************************************************************)
\* largest n of DataCount(n) explored
MaxData == 3
\* largest ZERO_COUNT explored
MaxZero == 2
\* largest number of committed blocks explored
MaxBlocks == 3
\* largest current_row explored
MaxRow == 1

\* usize::MAX, the initial min_data.  Every count of the model is far below
\* it; it is written as the largest integer the model checker represents.
USIZE_MAX == 2147483647

\* The page numbers faults are drawn from in Spec: one or two pages of every
\* range of JpegState::pages and a page of no range (100).  The ends of the
\* ranges are explored in SpecNext.
FaultPages == {44, 54, 58, 59, 63, 100, 150, 151}

\* The page sequence of the trace-replay scenario S1.
ScenarioS1 == <<54, 58, 63, 150, 151, 150, 59, 63, 150, 44, 58, 63, 150>>

Max2(a, b) == IF a >= b THEN a ELSE b
Min2(a, b) == IF a <= b THEN a ELSE b

(***************************************************************************)
(* JpegState                                                               *)
(***************************************************************************)
St(t) == [tag |-> t, n |-> 0]
PreStart      == St("PreStart")
Start         == St("Start")
NextRow       == St("NextRow")
StartRow      == St("StartRow")
PreIdctSlow   == St("PreIdctSlow")
StartIdctSlow == St("StartIdctSlow")
IdctSlow      == St("IdctSlow")
DataCount(x)  == [tag |-> "DataCount", n |-> x]

IsDataCount(s) == s.tag = "DataCount"

\* Range<usize> start..end and Range::contains
Range(a, b) == [start |-> a, end |-> b]
Contains(r, p) == r.start <= p /\ p < r.end

\* pages with the AEX-Notify profile of DataCount applied to the wrong flag
pages_AexSwapped(self, aex) ==
    CASE self.tag = "PreStart"    -> Range(0, 0)
      [] self.tag = "Start"       -> Range(54, 55)
      [] self.tag = "NextRow"     -> Range(44, 46)
      [] self.tag = "StartRow"    -> Range(58, 59)
      [] self.tag = "PreIdctSlow" -> Range(59, 60)
      [] self.tag = "IdctSlow"    -> Range(63, 65)
      [] self.tag = "DataCount"   -> IF aex THEN Range(150, 4340)
                                           ELSE Range(150, 4335)
      [] OTHER                    -> Range(0, 0)

\* JpegState::pages
pages(self, aex) ==
    CASE self.tag = "PreStart"    -> Range(0, 0)
      [] self.tag = "Start"       -> Range(54, 55)
      [] self.tag = "NextRow"     -> Range(44, 46)
      [] self.tag = "StartRow"    -> Range(58, 59)
      [] self.tag = "PreIdctSlow" -> Range(59, 60)
      [] self.tag = "IdctSlow"    -> Range(63, 65)
      [] self.tag = "DataCount"   -> IF aex THEN Range(150, 4335)
                                           ELSE Range(150, 4340)
      [] OTHER                    -> Range(0, 0)

\* next_states whose DataCount successor keeps the count
next_states_NoIncrement(self) ==
    CASE self.tag = "PreStart"    -> <<Start>>
      [] self.tag = "Start"       -> <<StartRow>>
      [] self.tag = "NextRow"     -> <<StartRow>>
      [] self.tag = "StartRow"    -> <<IdctSlow>>
      [] self.tag = "PreIdctSlow" -> <<IdctSlow, NextRow>>
      [] self.tag = "IdctSlow"    -> <<DataCount(1)>>
      [] self.tag = "DataCount"   -> <<DataCount(self.n), PreIdctSlow, NextRow>>
      [] OTHER                    -> <<>>

\* next_states whose NextRow goes back to Start
next_states_RowToStart(self) ==
    CASE self.tag = "PreStart"    -> <<Start>>
      [] self.tag = "Start"       -> <<StartRow>>
      [] self.tag = "NextRow"     -> <<Start>>
      [] self.tag = "StartRow"    -> <<IdctSlow>>
      [] self.tag = "PreIdctSlow" -> <<IdctSlow, NextRow>>
      [] self.tag = "IdctSlow"    -> <<DataCount(1)>>
      [] self.tag = "DataCount"   -> <<DataCount(self.n + 1), PreIdctSlow, NextRow>>
      [] OTHER                    -> <<>>

\* JpegState::next_states
next_states(self) ==
    CASE self.tag = "PreStart"    -> <<Start>>
      [] self.tag = "Start"       -> <<StartRow>>
      [] self.tag = "NextRow"     -> <<StartRow>>
      [] self.tag = "StartRow"    -> <<IdctSlow>>
      [] self.tag = "PreIdctSlow" -> <<IdctSlow, NextRow>>
      [] self.tag = "IdctSlow"    -> <<DataCount(1)>>
      [] self.tag = "DataCount"   -> <<DataCount(self.n + 1), PreIdctSlow, NextRow>>
      [] OTHER                    -> <<>>

\* Iterator::find over the successor list, then unwrap_or(dflt)
RECURSIVE FindOr(_, _, _, _)
FindOr(ns, page, aex, dflt) ==
    IF ns = <<>> THEN dflt
    ELSE IF Contains(pages(Head(ns), aex), page) THEN Head(ns)
    ELSE FindOr(Tail(ns), page, aex, dflt)

\* next falling back to the default state (unwrap_or_default) instead of self
next_OrDefault(self, page, aex) ==
    FindOr(next_states(self), page, aex, PreStart)

\* JpegState::next
next(self, page, aex) == FindOr(next_states(self), page, aex, self)

\* JpegState::next_pages
next_pages(self, aex) ==
    [i \in DOMAIN next_states(self) |-> pages(next_states(self)[i], aex)]

(***************************************************************************)
(* JpegReconstruct                                                         *)
(***************************************************************************)
\* JpegReconstruct::new
new(num_colors) ==
    [ max_data             |-> 1,
      min_data             |-> USIZE_MAX,
      current_color        |-> 0,
      num_colors           |-> num_colors,
      current_row          |-> 0,
      reconstructed_buffer |-> [c \in 1..num_colors |-> << <<>> >>] ]

\* next_row that appends the rows and leaves current_row alone
next_row_NoIncrement(r) ==
    [r EXCEPT !.reconstructed_buffer =
                  [c \in 1..r.num_colors |-> Append(r.reconstructed_buffer[c], <<>>)]]

\* JpegReconstruct::next_row
next_row(r) ==
    [r EXCEPT !.reconstructed_buffer =
                  [c \in 1..r.num_colors |-> Append(r.reconstructed_buffer[c], <<>>)],
              !.current_row = r.current_row + 1]

\* reconstruct_block that does not update max_data
reconstruct_block_NoMax(r, num_data) ==
    [r EXCEPT !.min_data = Min2(r.min_data, num_data),
              !.reconstructed_buffer[r.current_color + 1][r.current_row + 1] =
                  Append(@, num_data),
              !.current_color = (r.current_color + 1) % r.num_colors]

\* reconstruct_block that does not advance current_color
reconstruct_block_NoAdvance(r, num_data) ==
    [r EXCEPT !.max_data = Max2(r.max_data, num_data),
              !.min_data = Min2(r.min_data, num_data),
              !.reconstructed_buffer[r.current_color + 1][r.current_row + 1] =
                  Append(@, num_data)]

\* JpegReconstruct::reconstruct_block
reconstruct_block(r, num_data) ==
    [r EXCEPT !.max_data = Max2(r.max_data, num_data),
              !.min_data = Min2(r.min_data, num_data),
              !.reconstructed_buffer[r.current_color + 1][r.current_row + 1] =
                  Append(@, num_data),
              !.current_color = (r.current_color + 1) % r.num_colors]

\* reconstruct that commits on every fault taken in a DataCount state
Reconstruct_CommitAlways(r, prev_state, new_state) ==
    LET r1 == IF IsDataCount(prev_state)
              THEN reconstruct_block(r, prev_state.n)
              ELSE r
    IN  IF prev_state = NextRow /\ new_state = StartRow
        THEN next_row(r1)
        ELSE r1

\* JpegReconstruct::reconstruct
Reconstruct(r, prev_state, new_state) ==
    LET r1 == IF IsDataCount(prev_state) /\ ~IsDataCount(new_state)
              THEN reconstruct_block(r, prev_state.n)
              ELSE r
    IN  IF prev_state = NextRow /\ new_state = StartRow
        THEN next_row(r1)
        ELSE r1

\* JpegReconstruct::reconstruction, for channel index c (1-based):
\* the rows of the channel flattened
RECURSIVE Flatten(_)
Flatten(rows) ==
    IF rows = <<>> THEN <<>> ELSE Head(rows) \o Flatten(Tail(rows))
reconstruction(r, c) == Flatten(r.reconstructed_buffer[c])

\* Iterator::max of the row lengths, then unwrap_or(0)
RECURSIVE MaxRowLen(_)
MaxRowLen(rows) ==
    IF rows = <<>> THEN 0 ELSE Max2(Len(Head(rows)), MaxRowLen(Tail(rows)))

\* reconstructed_size whose height counts the row being filled
reconstructed_size_AllRows(r) ==
    [width  |-> MaxRowLen(r.reconstructed_buffer[1]),
     height |-> Len(r.reconstructed_buffer[1])]

\* JpegReconstruct::reconstructed_size
reconstructed_size(r) ==
    [width  |-> MaxRowLen(r.reconstructed_buffer[1]),
     height |-> Len(r.reconstructed_buffer[1]) - 1]

\* the pixels reconstructed_bitmap sets: x in 0..width, y in 0..height
bitmap_pixels(r) ==
    {<<x, y>> : x \in 0..(reconstructed_size(r).width - 1),
                y \in 0..(reconstructed_size(r).height - 1)}

\* the number of blocks committed so far, over all channels
RECURSIVE SumLen(_)
SumLen(chans) ==
    IF chans = <<>> THEN 0 ELSE Len(Flatten(Head(chans))) + SumLen(Tail(chans))
NumBlocks(r) == SumLen(r.reconstructed_buffer)

\* the set of counts committed so far
CommittedCounts(r) ==
    UNION { {reconstruction(r, c)[i] : i \in DOMAIN reconstruction(r, c)}
            : c \in 1..r.num_colors }

(***************************************************************************)
(* The attack driver                                                       *)
(***************************************************************************)
\* the pages of the model that lie in a range
PagesIn(r) == {p \in FaultPages : Contains(r, p)}

\* protect_next_pages that revokes the range of the first successor only
protect_next_pages_FirstOnly(s, aex, rev) ==
    rev \cup UNION {PagesIn(next_pages(s, aex)[i]) : i \in DOMAIN next_pages(s, aex) \cap {1}}

\* GlobalState::protect_next_pages: revoke_pages on every range of
\* state.next_pages; the result is the set of pages revoked afterwards
protect_next_pages(s, aex, rev) ==
    rev \cup UNION {PagesIn(next_pages(s, aex)[i]) : i \in DOMAIN next_pages(s, aex)}

\* a working set of size 3
PushWorkingSet_Three(ws, page) ==
    LET w == Append(ws, page) IN IF Len(w) > 3 THEN Tail(w) ELSE w

\* the working-set update of fault_handler: push_back, then pop_front
\* when more than 2 pages are held
PushWorkingSet(ws, page) ==
    LET w == Append(ws, page) IN IF Len(w) > 2 THEN Tail(w) ELSE w

SeqRange(q) == {q[i] : i \in DOMAIN q}

\* history: the last two elements of a sequence
LastTwo(q) == IF Len(q) > 2 THEN SubSeq(q, Len(q) - 1, Len(q)) ELSE q

\* history: DataCount transitions since the last non-DataCount state
DcFaultsAfter(prev_state, new_state, d) ==
    IF ~IsDataCount(new_state) THEN 0
    ELSE IF new_state # prev_state THEN d + 1
    ELSE d

\* history: the transitions from a DataCount state to another state
DcExitsAfter(prev_state, new_state, e) ==
    IF IsDataCount(prev_state) /\ ~IsDataCount(new_state) THEN e + 1 ELSE e

\* history: progress of the faults along ScenarioS1
S1After(pos, page) ==
    IF pos >= 0 /\ pos < Len(ScenarioS1) /\ ScenarioS1[pos + 1] = page
    THEN pos + 1 ELSE -1

\* the bounds on the explored runs
WithinBounds(prev_state, new_state, r) ==
    /\ IsDataCount(new_state) => new_state.n <= MaxData
    /\ (IsDataCount(prev_state) /\ ~IsDataCount(new_state)) => NumBlocks(r) < MaxBlocks
    /\ (prev_state = NextRow /\ new_state = StartRow) => r.current_row < MaxRow

\* the values of the variables of the other specifications while idle
NextIdle ==
    /\ nx_self = PreStart /\ nx_page = 0 /\ nx_aex = FALSE
    /\ nx_done = FALSE /\ nx_result = PreStart
NoAccess == [read |-> FALSE, write |-> FALSE, execute |-> FALSE, page |-> 0]
PageAccessIdle ==
    /\ pa_a = NoAccess /\ pa_b = NoAccess
    /\ pa_done = 0 /\ pa_covers = FALSE /\ pa_union = NoAccess
ShadowIdle ==
    /\ page_table_map = <<>> /\ pt_pages = <<>>
    /\ pt_last = "new" /\ pt_touched = FALSE /\ pt_prev = <<>>
TlbIdle ==
    /\ hw_tlb = [kind |-> "Perfect", pages |-> {}, sets |-> <<>>,
                 num_sets |-> 0, ways_per_set |-> 0]
    /\ tlb_hist = <<>> /\ tlb_inserted = {} /\ tlb_last = "new"
PamIdle ==
    /\ enc_pam = <<>> /\ enc_counter = 0
    /\ pam = [pam_buffer |-> <<>>, pam_active |-> <<>>, pam_counter |-> 0]
    /\ pam_last = "new" /\ pam_gap = 0 /\ s5_pos = -1
NoFrame == [items |-> {}, up |-> {}, down |-> {}]
NoDumper == [some |-> FALSE, ts |-> 0, state |-> {}, frame |-> NoFrame]
TrapIdle ==
    /\ attacker = [kind |-> "Stealthy", live_pages |-> <<>>, observe_ptes |-> TRUE]
    /\ pte_observations = {} /\ first_run = TRUE /\ no_prefetch = FALSE
    /\ layout = [stack_page |-> -1, code_page |-> 0, counter_page |-> 0, pam_page |-> 0]
    /\ dumper = NoDumper /\ pam_dumper = NoDumper
    /\ hwtlb_dumper = NoDumper /\ trap_count = 0 /\ trap_interrupt = FALSE
    /\ trap_missing = {} /\ last_interrupt = [seen |-> FALSE, pages |-> {}]
    /\ trap_entry = [live |-> {}, last |-> [seen |-> FALSE, pages |-> {}]]
    /\ frames_seen = {}
NoWrite == [who |-> "none", target |-> "none", owner |-> "none", running |-> FALSE]
MutexIdle ==
    /\ mx_mode = "tlblur" /\ main_pc = "setup" /\ h_kind = "none" /\ h_pc = "idle"
    /\ mutex_owner = "none" /\ mx_skip_first = FALSE /\ shared_writes = 0
    /\ atomic_writes = 0 /\ last_write = NoWrite
DumpIdle ==
    /\ vcd = [state |-> <<>>, ts |-> 0, changes |-> <<>>, stamp |-> 0]
    /\ vcd_items = <<>>
NoRun == [idle |-> TRUE]
TwinIdle ==
    /\ tw_a = NoRun /\ tw_b = NoRun /\ tw_enc = NoRun /\ tw_cfg = NoRun
    /\ tw_trace_a = <<>> /\ tw_trace_b = <<>>
    /\ tw_agree = TRUE /\ tw_differed = FALSE /\ tw_traps = 0
ProfIdle == ShadowIdle /\ TlbIdle /\ PamIdle /\ TrapIdle /\ MutexIdle /\ DumpIdle /\ TwinIdle
DriverIdle ==
    /\ drv_pc = "create" /\ args_aexnotify = FALSE /\ enclave = "none"
    /\ handler_registered = FALSE /\ drv_events = 0 /\ drv_log = <<>>
JpegIdle ==
    /\ mode = "trace" /\ state = PreStart /\ reconstruct = new(1)
    /\ working_set = <<>> /\ prev_page = 0 /\ use_ocalls = FALSE
    /\ has_aexnotify = FALSE /\ ZERO_COUNT = 0 /\ SKIP_FIRST = FALSE
    /\ revoked = {} /\ dc_faults = 0 /\ s1_pos = 0
    /\ fault_hist = <<>> /\ restored_last = {}
    /\ dc_exits = 0 /\ run_ended = FALSE
    /\ DriverIdle

\* The state when the victim is about to run: attack_vcd's locals after
\* initialisation, or GlobalState::new followed by attack_enclave's set-up
\* (the initial revocations with the fault handler, use_ocalls without it).
JpegInit ==
    /\ mode \in {"trace", "enclave", "ocalls"}
    /\ has_aexnotify \in BOOLEAN
    /\ \E color \in BOOLEAN : reconstruct = new(IF color THEN 3 ELSE 1)
    /\ state = PreStart
    /\ working_set = <<>>
    /\ prev_page = 0
    /\ use_ocalls = (mode = "ocalls")
    /\ ZERO_COUNT = 0
    /\ SKIP_FIRST = FALSE
    /\ revoked = IF mode = "enclave"
                 THEN protect_next_pages(PreStart, FALSE, {})
                 ELSE {}
    /\ dc_faults = 0
    /\ s1_pos = 0
    /\ fault_hist = <<>>
    /\ restored_last = {}
    /\ dc_exits = 0
    /\ run_ended = FALSE

\* One iteration of the replay loop of trace::attack_vcd on an access to `page`
TraceAccess(page) ==
    LET new_state == next(state, page, has_aexnotify) IN
    /\ mode = "trace" /\ ~run_ended
    /\ WithinBounds(state, new_state, reconstruct)
    /\ reconstruct' = Reconstruct(reconstruct, state, new_state)
    /\ state' = new_state
    /\ dc_faults' = DcFaultsAfter(state, new_state, dc_faults)
    /\ dc_exits' = DcExitsAfter(state, new_state, dc_exits)
    /\ s1_pos' = S1After(s1_pos, page)
    /\ UNCHANGED <<mode, working_set, prev_page, use_ocalls, has_aexnotify,
                   ZERO_COUNT, SKIP_FIRST, revoked, fault_hist, restored_last,
                   run_ended>>
    /\ UNCHANGED <<nextVars, paVars, profVars>>

\* sgx::fault_handler on a fault on `page` (a page whose access is revoked)
fault_handler(page) ==
    LET new_state == next(state, page, has_aexnotify)
        ws        == PushWorkingSet(working_set, page)
        restored  == IF has_aexnotify THEN SeqRange(ws) ELSE {page}
    IN
    /\ mode = "enclave" /\ ~run_ended
    /\ page \in revoked
    /\ WithinBounds(state, new_state, reconstruct)
    /\ reconstruct' = Reconstruct(reconstruct, state, new_state)
    /\ state' = new_state
    /\ working_set' = IF has_aexnotify THEN ws ELSE working_set
    /\ revoked' = protect_next_pages(new_state, has_aexnotify, revoked) \ restored
    /\ prev_page' = page
    /\ fault_hist' = IF has_aexnotify THEN LastTwo(Append(fault_hist, page)) ELSE fault_hist
    /\ restored_last' = restored
    /\ dc_faults' = DcFaultsAfter(state, new_state, dc_faults)
    /\ dc_exits' = DcExitsAfter(state, new_state, dc_exits)
    /\ s1_pos' = S1After(s1_pos, page)
    /\ UNCHANGED <<mode, use_ocalls, has_aexnotify, ZERO_COUNT, SKIP_FIRST, run_ended>>
    /\ UNCHANGED <<nextVars, paVars, profVars>>

\* The ocall handlers.  The victim enclave issues these ocalls only in the
\* ocall debugging mode (the driver then registers no fault handler).

\* sgx::ocall_next_row
ocall_next_row ==
    /\ mode = "ocalls" /\ ~run_ended
    /\ IF ~SKIP_FIRST
       THEN /\ SKIP_FIRST' = TRUE
            /\ UNCHANGED reconstruct
       ELSE /\ use_ocalls => reconstruct.current_row < MaxRow
            /\ reconstruct' = IF use_ocalls THEN next_row(reconstruct) ELSE reconstruct
            /\ UNCHANGED SKIP_FIRST
    /\ UNCHANGED <<mode, state, working_set, prev_page, use_ocalls, has_aexnotify,
                   ZERO_COUNT, revoked, dc_faults, s1_pos, fault_hist, restored_last,
                   dc_exits, run_ended>>
    /\ UNCHANGED <<nextVars, paVars, profVars>>

\* sgx::ocall_idct_islow
ocall_idct_islow ==
    /\ mode = "ocalls" /\ ~run_ended
    /\ use_ocalls => NumBlocks(reconstruct) < MaxBlocks
    /\ IF use_ocalls
       THEN /\ reconstruct' = reconstruct_block(reconstruct, ZERO_COUNT)
            /\ ZERO_COUNT' = 0
       ELSE UNCHANGED <<reconstruct, ZERO_COUNT>>
    /\ UNCHANGED <<mode, state, working_set, prev_page, use_ocalls, has_aexnotify,
                   SKIP_FIRST, revoked, dc_faults, s1_pos, fault_hist, restored_last,
                   dc_exits, run_ended>>
    /\ UNCHANGED <<nextVars, paVars, profVars>>

\* sgx::ocall_all_zero
ocall_all_zero ==
    /\ mode = "ocalls" /\ ~run_ended
    /\ ZERO_COUNT < MaxZero
    /\ ZERO_COUNT' = ZERO_COUNT + 1
    /\ UNCHANGED <<mode, state, reconstruct, working_set, prev_page, use_ocalls,
                   has_aexnotify, SKIP_FIRST, revoked, dc_faults, s1_pos, fault_hist,
                   restored_last, dc_exits, run_ended>>
    /\ UNCHANGED <<nextVars, paVars, profVars>>

\* an end of the run that commits the block still being counted
EndRun_Flush ==
    /\ ~run_ended
    /\ run_ended' = TRUE
    /\ reconstruct' = IF IsDataCount(state)
                      THEN reconstruct_block(reconstruct, state.n)
                      ELSE reconstruct
    /\ UNCHANGED <<mode, state, working_set, prev_page, use_ocalls,
                   has_aexnotify, ZERO_COUNT, SKIP_FIRST, revoked, dc_faults, s1_pos,
                   fault_hist, restored_last, dc_exits>>
    /\ UNCHANGED <<nextVars, paVars, profVars>>

\* The end of the run: the replay loop of attack_vcd is left at the end of
\* the trace, or decompress_image and free_image have returned; the image is
\* then saved through raw_reconstruction and reconstructed_bitmap, which
\* read the reconstruction and do not change it.
EndRun ==
    /\ ~run_ended
    /\ run_ended' = TRUE
    /\ UNCHANGED <<mode, state, reconstruct, working_set, prev_page, use_ocalls,
                   has_aexnotify, ZERO_COUNT, SKIP_FIRST, revoked, dc_faults, s1_pos,
                   fault_hist, restored_last, dc_exits>>
    /\ UNCHANGED <<nextVars, paVars, profVars>>

Init == JpegInit /\ DriverIdle /\ NextIdle /\ PageAccessIdle /\ ProfIdle

Next ==
    \/ \E page \in FaultPages : TraceAccess(page) /\ UNCHANGED driverVars
    \/ \E page \in FaultPages : fault_handler(page) /\ UNCHANGED driverVars
    \/ ocall_next_row /\ UNCHANGED driverVars
    \/ ocall_idct_islow /\ UNCHANGED driverVars
    \/ ocall_all_zero /\ UNCHANGED driverVars
    \/ EndRun /\ UNCHANGED driverVars

Spec == Init /\ [][Next]_vars

(***************************************************************************)
(* sgx::attack_enclave (SpecDriver)                                        *)
(*                                                                         *)
(* The steps of attack_enclave from sgx_create_enclave to the saving of    *)
(* the reconstruction, with the handlers that run during the enclave       *)
(* calls.  An assert! or unwrap() that fails, or a panic! in the fault     *)
(* handler, ends the process where it stands (drv_pc = "panicked").  The   *)
(* result of sgx_create_enclave is printed and not tested; the runs        *)
(* explored are those in which the enclave was created.                    *)
(***************************************************************************)
\* largest number of handler calls explored during one run of attack_enclave
MaxEvents == 3

\* the fields of GlobalState
globalVars == <<state, reconstruct, working_set, prev_page, use_ocalls, has_aexnotify>>
\* the statics and the histories of the handlers
handlerVars == <<ZERO_COUNT, SKIP_FIRST, dc_faults, s1_pos, fault_hist, restored_last,
                 dc_exits, run_ended>>

\* an enclave call has been made and has not returned
InEnclave == drv_pc \in {"in_decompress", "in_free"}

DriverNew ==
    /\ mode \in {"enclave", "ocalls"}
    /\ args_aexnotify \in BOOLEAN
    /\ drv_pc = "create" /\ enclave = "none" /\ handler_registered = FALSE
    /\ drv_events = 0 /\ drv_log = <<>>
    /\ state = PreStart /\ reconstruct = new(1)
    /\ working_set = <<>> /\ prev_page = 0 /\ use_ocalls = FALSE
    /\ has_aexnotify = FALSE /\ ZERO_COUNT = 0 /\ SKIP_FIRST = FALSE
    /\ revoked = {} /\ dc_faults = 0 /\ s1_pos = 0
    /\ fault_hist = <<>> /\ restored_last = {}
    /\ dc_exits = 0 /\ run_ended = FALSE

\* sgx_create_enclave, then GlobalState::new(args.color)
CreateEnclave(color) ==
    /\ drv_pc = "create"
    /\ enclave' = "alive"
    /\ state' = PreStart
    /\ reconstruct' = new(IF color THEN 3 ELSE 1)
    /\ working_set' = <<>> /\ prev_page' = 0
    /\ use_ocalls' = FALSE /\ has_aexnotify' = FALSE
    /\ drv_log' = Append(drv_log, "create")
    /\ drv_pc' = "load_image"
    /\ UNCHANGED <<mode, revoked, handlerVars, args_aexnotify, handler_registered,
                   drv_events>>

\* assert!(load_image(..) == 0): no handler is registered and no page is
\* revoked yet
LoadImage(ok) ==
    /\ drv_pc = "load_image"
    /\ drv_log' = Append(drv_log, "load_image")
    /\ drv_pc' = IF ok THEN "configure" ELSE "panicked"
    /\ UNCHANGED <<mode, revoked, globalVars, handlerVars, args_aexnotify, enclave,
                   handler_registered, drv_events>>

\* the step of RegisterFaultHandler with the call of register_fault_handler
\* left out
RegisterFaultHandler_Skip ==
    /\ drv_pc = "configure" /\ mode = "enclave"
    /\ drv_log' = Append(drv_log, "register")
    /\ drv_pc' = "protect"
    /\ UNCHANGED <<mode, revoked, globalVars, handlerVars, args_aexnotify, enclave,
                   handler_registered, drv_events>>

\* use_fault_handler: register_fault_handler(Some(fault_handler))
RegisterFaultHandler ==
    /\ drv_pc = "configure" /\ mode = "enclave"
    /\ handler_registered' = TRUE
    /\ drv_log' = Append(drv_log, "register")
    /\ drv_pc' = "protect"
    /\ UNCHANGED <<mode, revoked, globalVars, handlerVars, args_aexnotify, enclave,
                   drv_events>>

\* data.protect_next_pages().unwrap(), then data.has_aexnotify =
\* args.aexnotify and GLOBAL_STATE.set
ProtectInitial(ok) ==
    /\ drv_pc = "protect"
    /\ drv_log' = Append(drv_log, "revoke")
    /\ IF ok
       THEN /\ revoked' = protect_next_pages(state, has_aexnotify, revoked)
            /\ has_aexnotify' = args_aexnotify
            /\ drv_pc' = "decompress_image"
       ELSE /\ drv_pc' = "panicked"
            /\ UNCHANGED <<revoked, has_aexnotify>>
    /\ UNCHANGED <<mode, state, reconstruct, working_set, prev_page, use_ocalls,
                   handlerVars, args_aexnotify, enclave, handler_registered, drv_events>>

\* without use_fault_handler: data.use_ocalls = true, then
\* data.has_aexnotify = args.aexnotify and GLOBAL_STATE.set
UseOcalls ==
    /\ drv_pc = "configure" /\ mode = "ocalls"
    /\ use_ocalls' = TRUE
    /\ has_aexnotify' = args_aexnotify
    /\ drv_pc' = "decompress_image"
    /\ UNCHANGED <<mode, revoked, state, reconstruct, working_set, prev_page,
                   handlerVars, args_aexnotify, enclave, handler_registered,
                   drv_events, drv_log>>

\* decompress_image(eid) and free_image(eid) are entered
EnclaveCall ==
    /\ drv_pc \in {"decompress_image", "free_image"}
    /\ drv_log' = Append(drv_log, drv_pc)
    /\ drv_pc' = IF drv_pc = "decompress_image" THEN "in_decompress" ELSE "in_free"
    /\ UNCHANGED <<mode, revoked, globalVars, handlerVars, args_aexnotify, enclave,
                   handler_registered, drv_events>>

\* assert!(decompress_image(eid) == 0) and assert!(free_image(eid) == 0)
EnclaveReturn(ok) ==
    /\ InEnclave
    /\ drv_pc' = IF ~ok THEN "panicked"
                 ELSE IF drv_pc = "in_decompress" THEN "free_image" ELSE "destroy"
    /\ UNCHANGED <<mode, revoked, globalVars, handlerVars, args_aexnotify, enclave,
                   handler_registered, drv_events, drv_log>>

\* a fault on a revoked page during an enclave call: fault_handler runs
DriverFault(page) ==
    /\ InEnclave /\ handler_registered
    /\ drv_events < MaxEvents
    /\ fault_handler(page)
    /\ drv_events' = drv_events + 1
    /\ UNCHANGED <<drv_pc, args_aexnotify, enclave, handler_registered, drv_log>>

\* fault_handler when revoke_pages or restore_pages returns nonzero: the
\* unwrap() or the panic!("Unable to mprotect") ends the process
DriverFaultFails(page) ==
    /\ InEnclave /\ handler_registered
    /\ mode = "enclave" /\ page \in revoked
    /\ drv_pc' = "panicked"
    /\ UNCHANGED <<jpegVars, nextVars, paVars, profVars>>
    /\ UNCHANGED <<args_aexnotify, enclave, handler_registered, drv_events, drv_log>>

\* an ocall of the victim during decompress_image
DriverOcall ==
    /\ drv_pc = "in_decompress"
    /\ drv_events < MaxEvents
    /\ \/ ocall_next_row
       \/ ocall_idct_islow
       \/ ocall_all_zero
    /\ drv_events' = drv_events + 1
    /\ UNCHANGED <<drv_pc, args_aexnotify, enclave, handler_registered, drv_log>>

\* sgx_destroy_enclave(eid)
DestroyEnclave ==
    /\ drv_pc = "destroy"
    /\ enclave' = "destroyed"
    /\ drv_log' = Append(drv_log, "destroy")
    /\ drv_pc' = "save"
    /\ UNCHANGED <<jpegVars, nextVars, paVars, profVars>>
    /\ UNCHANGED <<args_aexnotify, handler_registered, drv_events>>

\* the reconstruction is written: raw_reconstruction and reconstructed_bitmap
SaveImage ==
    /\ drv_pc = "save"
    /\ drv_log' = Append(drv_log, "emit")
    /\ drv_pc' = "done"
    /\ UNCHANGED <<jpegVars, nextVars, paVars, profVars>>
    /\ UNCHANGED <<args_aexnotify, enclave, handler_registered, drv_events>>

DriverNext ==
    \/ \E color \in BOOLEAN : CreateEnclave(color) /\ UNCHANGED <<nextVars, paVars, profVars>>
    \/ \E ok \in BOOLEAN : LoadImage(ok) /\ UNCHANGED <<nextVars, paVars, profVars>>
    \/ RegisterFaultHandler /\ UNCHANGED <<nextVars, paVars, profVars>>
    \/ \E ok \in BOOLEAN : ProtectInitial(ok) /\ UNCHANGED <<nextVars, paVars, profVars>>
    \/ UseOcalls /\ UNCHANGED <<nextVars, paVars, profVars>>
    \/ EnclaveCall /\ UNCHANGED <<nextVars, paVars, profVars>>
    \/ \E ok \in BOOLEAN : EnclaveReturn(ok) /\ UNCHANGED <<nextVars, paVars, profVars>>
    \/ \E page \in FaultPages : DriverFault(page)
    \/ \E page \in FaultPages : DriverFaultFails(page)
    \/ DriverOcall
    \/ DestroyEnclave
    \/ SaveImage

InitDriver == DriverNew /\ NextIdle /\ PageAccessIdle /\ ProfIdle

SpecDriver == InitDriver /\ [][DriverNext]_vars

(***************************************************************************)
(* JpegState::next on drawn inputs                                         *)
(***************************************************************************)
\* every JpegState with a count up to MaxData
JpegStates ==
    {PreStart, Start, NextRow, StartRow, PreIdctSlow, StartIdctSlow, IdctSlow}
        \cup {DataCount(x) : x \in 0..MaxData}

\* the pages drawn: both ends of every range of JpegState::pages, their
\* neighbours, and pages of no range
NextPages ==
    {0, 43, 44, 45, 46, 53, 54, 55, 57, 58, 59, 60, 62, 63, 64, 65, 100,
     149, 150, 151, 4334, 4335, 4336, 4338, 4339, 4340, 4341}

NextInit ==
    /\ nx_self \in JpegStates
    /\ nx_page \in NextPages
    /\ nx_aex \in BOOLEAN
    /\ nx_done = FALSE
    /\ nx_result = PreStart

\* a call self.next(page, has_aexnotify)
ApplyNext ==
    /\ ~nx_done
    /\ nx_result' = next(nx_self, nx_page, nx_aex)
    /\ nx_done' = TRUE
    /\ UNCHANGED <<nx_self, nx_page, nx_aex>>
    /\ UNCHANGED <<jpegVars, paVars, profVars, driverVars>>

InitNext == NextInit /\ JpegIdle /\ PageAccessIdle /\ ProfIdle

SpecNext == InitNext /\ [][ApplyNext]_vars

(***************************************************************************)
(* PageAccess (profiler)                                                   *)
(***************************************************************************)
\* covers without the check of the execute bit
covers_NoExecute(self, other) ==
    IF self.page = other.page
    THEN LET r0 == TRUE
             r1 == IF other.read /\ ~self.read THEN FALSE ELSE r0
             r2 == IF other.write /\ ~self.write THEN FALSE ELSE r1
         IN  r2
    ELSE FALSE

\* PageAccess::covers
covers(self, other) ==
    IF self.page = other.page
    THEN LET r0 == TRUE
             r1 == IF other.read /\ ~self.read THEN FALSE ELSE r0
             r2 == IF other.write /\ ~self.write THEN FALSE ELSE r1
             r3 == IF other.execute /\ ~self.execute THEN FALSE ELSE r2
         IN  r3
    ELSE FALSE

\* union that intersects the write bits
union_AndWrite(self, other) ==
    [ read    |-> self.read \/ other.read,
      write   |-> self.write /\ other.write,
      execute |-> self.execute \/ other.execute,
      page    |-> self.page ]

\* PageAccess::union
union(self, other) ==
    [ read    |-> self.read \/ other.read,
      write   |-> self.write \/ other.write,
      execute |-> self.execute \/ other.execute,
      page    |-> self.page ]

\* largest page number of the PageAccess values drawn
MaxPage == 2

PageAccessValues ==
    [read : BOOLEAN, write : BOOLEAN, execute : BOOLEAN, page : 0..MaxPage]

PageAccessInit ==
    /\ pa_a \in PageAccessValues
    /\ pa_b \in PageAccessValues
    /\ pa_done = 0
    /\ pa_union = NoAccess
    /\ pa_covers = [a_b |-> FALSE, a_u |-> FALSE, u_a |-> FALSE, u_b |-> FALSE]

\* u = a.union(b)
ApplyUnion ==
    /\ pa_done = 0
    /\ pa_union' = union(pa_a, pa_b)
    /\ pa_done' = 1
    /\ UNCHANGED <<pa_a, pa_b, pa_covers>>
    /\ UNCHANGED <<jpegVars, nextVars, profVars, driverVars>>

\* a.covers(b), a.covers(u), u.covers(a), u.covers(b)
ApplyCovers ==
    /\ pa_done = 1
    /\ pa_covers' = [ a_b |-> covers(pa_a, pa_b),
                      a_u |-> covers(pa_a, pa_union),
                      u_a |-> covers(pa_union, pa_a),
                      u_b |-> covers(pa_union, pa_b) ]
    /\ pa_done' = 2
    /\ UNCHANGED <<pa_a, pa_b, pa_union>>
    /\ UNCHANGED <<jpegVars, nextVars, profVars, driverVars>>

PageAccessNext == ApplyUnion \/ ApplyCovers

InitPageAccess == PageAccessInit /\ JpegIdle /\ NextIdle /\ ProfIdle

SpecPageAccess == InitPageAccess /\ [][PageAccessNext]_vars

(***************************************************************************)
(* PageTable: the shadow of the enclave's page-table entries (SpecShadow)  *)
(*                                                                         *)
(* page_table_map[i + 1] is the entry of page i: some = FALSE for None,    *)
(* otherwise the P, A and D bits of the entry.  The log accessed_ptes,     *)
(* which update_page_accesses appends to and nothing reads, is left out.   *)
(***************************************************************************)
\* largest number of page-table entries explored
MaxPtPages == 3

NoEntry == [some |-> FALSE, present |-> FALSE, accessed |-> FALSE, dirty |-> FALSE]

\* the entries map_all_ptes can produce before their A/D bits are cleared
PageTableEntries ==
    {NoEntry} \cup [some : {TRUE}, present : BOOLEAN, accessed : BOOLEAN, dirty : BOOLEAN]

clear_all_ad_bits(map) ==
    [i \in DOMAIN map |->
        IF map[i].some
        THEN [map[i] EXCEPT !.accessed = FALSE, !.dirty = FALSE]
        ELSE map[i]]

\* the entries from index i on that are accessed and present, in order
RECURSIVE ScanAccessed(_, _)
ScanAccessed(map, i) ==
    IF i > Len(map) THEN <<>>
    ELSE IF map[i].some /\ map[i].accessed /\ map[i].present
         THEN <<[read |-> TRUE, write |-> map[i].dirty, execute |-> FALSE,
                 page |-> i - 1]>> \o ScanAccessed(map, i + 1)
         ELSE ScanAccessed(map, i + 1)

\* a sampler that forgets self.pages.clear()
update_page_accesses_NoClear(old_pages, map) == old_pages \o ScanAccessed(map, 1)

\* PageTable::update_page_accesses: the new value of self.pages
update_page_accesses(old_pages, map) == ScanAccessed(map, 1)

\* a get_accessed_pages that ignores its filter
get_accessed_pages_All(sample, keep) == sample

\* PageTable::get_accessed_pages with the filter given as the set of
\* accesses it keeps
get_accessed_pages(sample, keep) == SelectSeq(sample, LAMBDA a : a \in keep)

\* PageTable::new: map_all_ptes followed by clear_all_ad_bits
PageTableNew ==
    /\ \E n \in 1..MaxPtPages : \E map \in [1..n -> PageTableEntries] :
           page_table_map = clear_all_ad_bits(map)
    /\ pt_pages = <<>>
    /\ pt_last = "new"
    /\ pt_touched = FALSE
    /\ pt_prev = <<>>

\* the hardware sets the A bit, and the D bit on a write, of a present entry
EnclaveAccess(page, write) ==
    /\ page + 1 \in DOMAIN page_table_map
    /\ page_table_map[page + 1].some
    /\ page_table_map[page + 1].present
    /\ page_table_map' = [page_table_map EXCEPT
           ![page + 1].accessed = TRUE,
           ![page + 1].dirty = page_table_map[page + 1].dirty \/ write]
    /\ pt_touched' = TRUE
    /\ pt_last' = "access"
    /\ UNCHANGED <<pt_pages, pt_prev>>

\* the operating system maps or unmaps a page, leaving its A/D bits
SetPresent(page, present) ==
    /\ page + 1 \in DOMAIN page_table_map
    /\ page_table_map[page + 1].some
    /\ page_table_map[page + 1].present # present
    /\ page_table_map' = [page_table_map EXCEPT ![page + 1].present = present]
    /\ pt_last' = "present"
    /\ UNCHANGED <<pt_pages, pt_touched, pt_prev>>

ClearAllAdBits ==
    /\ page_table_map' = clear_all_ad_bits(page_table_map)
    /\ pt_touched' = FALSE
    /\ pt_last' = "clear"
    /\ UNCHANGED <<pt_pages, pt_prev>>

UpdatePageAccesses ==
    /\ pt_pages' = update_page_accesses(pt_pages, page_table_map)
    /\ pt_last' = "sample"
    /\ pt_prev' = pt_pages
    /\ UNCHANGED <<page_table_map, pt_touched>>

ShadowNext ==
    \/ \E page \in 0..(MaxPtPages - 1) : \E write \in BOOLEAN :
           EnclaveAccess(page, write) /\ UNCHANGED <<baseVars, dumpVars, twinVars, tlbVars, pamVars, trapVars, mutexVars>>
    \/ \E page \in 0..(MaxPtPages - 1) : \E present \in BOOLEAN :
           SetPresent(page, present) /\ UNCHANGED <<baseVars, dumpVars, twinVars, tlbVars, pamVars, trapVars, mutexVars>>
    \/ ClearAllAdBits /\ UNCHANGED <<baseVars, dumpVars, twinVars, tlbVars, pamVars, trapVars, mutexVars>>
    \/ UpdatePageAccesses /\ UNCHANGED <<baseVars, dumpVars, twinVars, tlbVars, pamVars, trapVars, mutexVars>>

InitShadow == PageTableNew /\ JpegIdle /\ NextIdle /\ PageAccessIdle /\ TlbIdle /\ PamIdle /\ TrapIdle /\ MutexIdle /\ DumpIdle /\ TwinIdle

SpecShadow == InitShadow /\ [][ShadowNext]_vars

(***************************************************************************)
(* HardwareTLB: the simulated hardware TLB (SpecTlb)                       *)
(*                                                                         *)
(* hw_tlb is a record with the fields of both variants: pages for          *)
(* Perfect, sets / num_sets / ways_per_set for SetAssociative.  sets[i+1]  *)
(* is the set of index i; the head of ways is the least recently used      *)
(* entry.  Set::invalidate has no caller and is left out, so every entry   *)
(* keeps valid = true.                                                     *)
(***************************************************************************)
\* largest num_sets and ways_per_set explored
MaxSets == 2
MaxWays == 2
\* largest number of insertions between two flushes
MaxTlbOps == 4

Set_new(capacity) == [ways |-> <<>>, capacity |-> capacity]

Set_lookup(self, page) ==
    \E i \in 1..Len(self.ways) :
        covers(self.ways[i].page, page) /\ self.ways[i].valid

\* the sequence q without its element at position pos
RemoveAt(q, pos) == SubSeq(q, 1, pos - 1) \o SubSeq(q, pos + 1, Len(q))

\* an insert that never promotes the entry it finds
Set_insert_NoPromote(self, page) ==
    LET found == {i \in 1..Len(self.ways) :
                      covers(self.ways[i].page, page) /\ self.ways[i].valid}
    IN  IF found # {}
        THEN self
        ELSE LET kept == IF Len(self.ways) = self.capacity /\ self.ways # <<>>
                         THEN Tail(self.ways) ELSE self.ways
             IN  [self EXCEPT !.ways = Append(kept, [page |-> page, valid |-> TRUE])]

\* Set::insert
Set_insert(self, page) ==
    LET found == {i \in 1..Len(self.ways) :
                      covers(self.ways[i].page, page) /\ self.ways[i].valid}
    IN  IF found # {}
        THEN LET pos == CHOOSE i \in found : \A j \in found : i <= j
             IN  [self EXCEPT !.ways = Append(RemoveAt(self.ways, pos), self.ways[pos])]
        ELSE LET kept == IF Len(self.ways) = self.capacity /\ self.ways # <<>>
                         THEN Tail(self.ways) ELSE self.ways
             IN  [self EXCEPT !.ways = Append(kept, [page |-> page, valid |-> TRUE])]

get_set_index(page, num_sets) == page.page % num_sets

\* HardwareTLB::from(HardwareTLBConfig)
HardwareTLB_Perfect ==
    [kind |-> "Perfect", pages |-> {}, sets |-> <<>>, num_sets |-> 0, ways_per_set |-> 0]
HardwareTLB_SetAssociative(num_sets, ways_per_set) ==
    [kind |-> "SetAssociative", pages |-> {},
     sets |-> [i \in 1..num_sets |-> Set_new(ways_per_set)],
     num_sets |-> num_sets, ways_per_set |-> ways_per_set]

flush(self) ==
    IF self.kind = "Perfect"
    THEN [self EXCEPT !.pages = {}]
    ELSE [self EXCEPT !.sets = [i \in DOMAIN self.sets |->
                                   [self.sets[i] EXCEPT !.ways = <<>>]]]

\* HardwareTLB::update with the iterator's items as the sequence accesses
RECURSIVE update(_, _)
update(self, accesses) ==
    IF accesses = <<>> THEN self
    ELSE LET page == Head(accesses)
             next_self ==
                 IF self.kind = "Perfect"
                 THEN [self EXCEPT !.pages = @ \cup {page}]
                 ELSE LET set_index == get_set_index(page, self.num_sets)
                      IN  [self EXCEPT !.sets[set_index + 1] = Set_insert(@, page)]
         IN  update(next_self, Tail(accesses))

\* a test that asks for the very access to have been inserted
test_Exact(self, page) ==
    IF self.kind = "Perfect"
    THEN page \in self.pages
    ELSE Set_lookup(self.sets[get_set_index(page, self.num_sets) + 1], page)

test(self, page) ==
    IF self.kind = "Perfect"
    THEN \E p \in self.pages : covers(p, page)
    ELSE Set_lookup(self.sets[get_set_index(page, self.num_sets) + 1], page)

\* the accesses inserted: two permission combinations on pages that share
\* set 0 and a page of another set for the set-associative TLB, every
\* permission combination on two pages for the perfect TLB
TlbInputs(self) ==
    IF self.kind = "Perfect"
    THEN [read : BOOLEAN, write : BOOLEAN, execute : BOOLEAN, page : {0, 1}]
    ELSE [read : {TRUE}, write : BOOLEAN, execute : {FALSE}, page : {0, 1, 2, 4}]

TlbNew ==
    /\ \/ hw_tlb = HardwareTLB_Perfect
       \/ \E num_sets \in 1..MaxSets : \E ways_per_set \in 1..MaxWays :
              hw_tlb = HardwareTLB_SetAssociative(num_sets, ways_per_set)
    /\ tlb_hist = <<>>
    /\ tlb_inserted = {}
    /\ tlb_last = "new"

TlbUpdate(page) ==
    /\ page \in TlbInputs(hw_tlb)
    /\ IF hw_tlb.kind = "Perfect"
       THEN Cardinality(tlb_inserted) < MaxTlbOps /\ UNCHANGED tlb_hist
       ELSE Len(tlb_hist) < MaxTlbOps /\ tlb_hist' = Append(tlb_hist, page)
    /\ hw_tlb' = update(hw_tlb, <<page>>)
    /\ tlb_inserted' = tlb_inserted \cup {page}
    /\ tlb_last' = "update"

TlbFlush ==
    /\ hw_tlb' = flush(hw_tlb)
    /\ tlb_hist' = <<>>
    /\ tlb_inserted' = {}
    /\ tlb_last' = "flush"

TlbNext ==
    \/ \E page \in [read : BOOLEAN, write : BOOLEAN, execute : BOOLEAN, page : {0, 1, 2, 4}] :
           TlbUpdate(page) /\ UNCHANGED <<baseVars, dumpVars, twinVars, shadowVars, pamVars, trapVars, mutexVars>>
    \/ TlbFlush /\ UNCHANGED <<baseVars, dumpVars, twinVars, shadowVars, pamVars, trapVars, mutexVars>>

InitTlb == TlbNew /\ JpegIdle /\ NextIdle /\ PageAccessIdle /\ ShadowIdle /\ PamIdle /\ TrapIdle /\ MutexIdle /\ DumpIdle /\ TwinIdle

SpecTlb == InitTlb /\ [][TlbNext]_vars

(***************************************************************************)
(* PAM: the profiler's mirror of the enclave's page access map (SpecPam)   *)
(*                                                                         *)
(* enc_pam and enc_counter are the enclave memory that update_pam reads.   *)
(* The enclave's counter only grows, so new_counter - 1 and                *)
(* new_counter - old_counter never wrap.  pam_buffer[i + 1] is the slot of *)
(* page i; an unused slot of pam_active is PageAccess::default().          *)
(* pam_buffer has pam_size counters, and update_pam reads pam_size bytes   *)
(* (the transmuted slice keeps its length), that is the first pam_size / 8 *)
(* counters; main passes pam_size = num_pages * 8.                         *)
(***************************************************************************)
\* the length of the enclave's page access map
NumPamPages == 7
\* largest page stamped by the enclave outside scenario S5
MaxStampPage == 3
\* largest value of the enclave's counter outside scenario S5
MaxCounter == 4
\* largest pws_size explored
MaxPws == 2

\* the memory images of scenario S5, as the consecutive update_pam steps
\* read them: <<page access map, counter>>
ScenarioS5 ==
    << <<<<0, 0, 5, 0, 0, 0, 0>>, 5>>,
       <<<<0, 0, 5, 0, 7, 0, 0>>, 7>>,
       <<<<0, 0, 5, 0, 7, 0, 9>>, 9>> >>

\* PAM::new
PAM_new(pam_size, pws_size) ==
    [pam_buffer |-> [i \in 1..pam_size |-> 0],
     pam_active |-> [i \in 1..pws_size |-> NoAccess],
     pam_counter |-> 0]

\* the key of min_by_key in update_pam
PamKey(p, pam_buffer) == IF p.page = 0 THEN 0 ELSE pam_buffer[p.page + 1]

\* an eviction that picks the first slot of largest key
min_by_key_Max(pam_active, pam_buffer) ==
    IF pam_active = <<>> THEN 0
    ELSE CHOOSE i \in 1..Len(pam_active) :
             /\ \A j \in 1..Len(pam_active) :
                    PamKey(pam_active[i], pam_buffer) >= PamKey(pam_active[j], pam_buffer)
             /\ \A j \in 1..(i - 1) :
                    PamKey(pam_active[j], pam_buffer) < PamKey(pam_active[i], pam_buffer)

\* Iterator::min_by_key over pam_active: the first slot of smallest key,
\* 0 for None
min_by_key(pam_active, pam_buffer) ==
    IF pam_active = <<>> THEN 0
    ELSE CHOOSE i \in 1..Len(pam_active) :
             /\ \A j \in 1..Len(pam_active) :
                    PamKey(pam_active[i], pam_buffer) <= PamKey(pam_active[j], pam_buffer)
             /\ \A j \in 1..(i - 1) :
                    PamKey(pam_active[j], pam_buffer) > PamKey(pam_active[i], pam_buffer)

\* the loop of update_pam without the test of recency
RECURSIVE PamScan_NoThreshold(_, _, _)
PamScan_NoThreshold(self, page, new_counter) ==
    IF page >= Len(self.pam_buffer) THEN self
    ELSE LET value == self.pam_buffer[page + 1]
             index == min_by_key(self.pam_active, self.pam_buffer)
             after ==
                 IF value > 0
                 THEN IF (\A i \in 1..Len(self.pam_active) : self.pam_active[i].page # page)
                         /\ index # 0
                      THEN [self EXCEPT
                               !.pam_counter = new_counter,
                               !.pam_active[index] =
                                   [read |-> TRUE, write |-> TRUE, execute |-> TRUE,
                                    page |-> page]]
                      ELSE [self EXCEPT !.pam_counter = new_counter]
                 ELSE self
         IN  PamScan_NoThreshold(after, page + 1, new_counter)

\* the loop of update_pam without the search for the page in pam_active
RECURSIVE PamScan_NoFind(_, _, _)
PamScan_NoFind(self, page, new_counter) ==
    IF page >= Len(self.pam_buffer) THEN self
    ELSE LET value == self.pam_buffer[page + 1]
             index == min_by_key(self.pam_active, self.pam_buffer)
             after ==
                 IF value >= new_counter - 1 /\ value > 0
                 THEN IF index # 0
                      THEN [self EXCEPT
                               !.pam_counter = new_counter,
                               !.pam_active[index] =
                                   [read |-> TRUE, write |-> TRUE, execute |-> TRUE,
                                    page |-> page]]
                      ELSE [self EXCEPT !.pam_counter = new_counter]
                 ELSE self
         IN  PamScan_NoFind(after, page + 1, new_counter)

\* the loop of update_pam from page on: self.pam_buffer holds the map read
RECURSIVE PamScan(_, _, _)
PamScan(self, page, new_counter) ==
    IF page >= Len(self.pam_buffer) THEN self
    ELSE LET value == self.pam_buffer[page + 1]
             index == min_by_key(self.pam_active, self.pam_buffer)
             after ==
                 IF value >= new_counter - 1 /\ value > 0
                 THEN IF (\A i \in 1..Len(self.pam_active) : self.pam_active[i].page # page)
                         /\ index # 0
                      THEN [self EXCEPT
                               !.pam_counter = new_counter,
                               !.pam_active[index] =
                                   [read |-> TRUE, write |-> TRUE, execute |-> TRUE,
                                    page |-> page]]
                      ELSE [self EXCEPT !.pam_counter = new_counter]
                 ELSE self
         IN  PamScan(after, page + 1, new_counter)

\* the read of the enclave's map into pam_buffer: Len(pam_buffer) bytes
ReadPam(pam_buffer, pam_mem) ==
    [i \in DOMAIN pam_buffer |->
        IF i <= Len(pam_buffer) \div 8 /\ i <= Len(pam_mem)
        THEN pam_mem[i] ELSE pam_buffer[i]]

\* an update_pam that takes the counter read whenever it differs
update_pam_Advance(self, pam_mem, new_counter) ==
    LET old_counter == self.pam_counter
    IN  IF old_counter # new_counter
        THEN [PamScan([self EXCEPT !.pam_buffer = ReadPam(@, pam_mem)], 0, new_counter)
                 EXCEPT !.pam_counter = new_counter]
        ELSE self

\* PAM::update_pam reading the enclave memory (pam_mem, new_counter)
update_pam(self, pam_mem, new_counter) ==
    LET old_counter == self.pam_counter
    IN  IF old_counter # new_counter
        THEN PamScan([self EXCEPT !.pam_buffer = ReadPam(@, pam_mem)], 0, new_counter)
        ELSE self

\* a get_pam that skips the slots never filled
get_pam_Filled(self) == SelectSeq(self.pam_active, LAMBDA p : p.read)

\* PAM::get_pam
get_pam(self) == self.pam_active

PamNew ==
    /\ enc_pam = [i \in 1..NumPamPages |-> 0]
    /\ enc_counter \in {0, 1}
    /\ \E pws_size \in 1..MaxPws : pam = PAM_new(NumPamPages * 8, pws_size)
    /\ pam_last = "new"
    /\ pam_gap = 0
    /\ s5_pos = 0

\* the enclave's instrumentation: store the counter in the slot of the page,
\* then bump the counter
EnclavePamUpdate(page) ==
    /\ enc_counter < MaxCounter
    /\ s5_pos \in {0, -1}
    /\ enc_pam' = [enc_pam EXCEPT ![page + 1] = enc_counter]
    /\ enc_counter' = enc_counter + 1
    /\ pam_last' = "enclave"
    /\ pam_gap' = pam_gap + 1
    /\ s5_pos' = -1
    /\ UNCHANGED pam

\* the enclave memory takes the next image of scenario S5, once the
\* profiler has read the one before
EnclaveScenarioS5 ==
    /\ s5_pos \in 0..(Len(ScenarioS5) - 1)
    /\ s5_pos > 0 => pam_last = "update"
    /\ Len(pam.pam_active) = 2
    /\ Len(enc_pam) >= Len(ScenarioS5[s5_pos + 1][1])
    /\ enc_pam' = [i \in DOMAIN enc_pam |->
                       IF i <= Len(ScenarioS5[s5_pos + 1][1])
                       THEN ScenarioS5[s5_pos + 1][1][i] ELSE 0]
    /\ enc_counter' = ScenarioS5[s5_pos + 1][2]
    /\ s5_pos' = s5_pos + 1
    /\ pam_last' = "enclave"
    /\ pam_gap' = pam_gap + 1
    /\ UNCHANGED pam

\* instrumentation drift: the enclave's counter advances and no slot of
\* the map is stamped
EnclaveCounterDrift ==
    /\ enc_counter < MaxCounter
    /\ s5_pos \in {0, -1}
    /\ enc_counter' = enc_counter + 1
    /\ pam_last' = "enclave"
    /\ pam_gap' = pam_gap + 1
    /\ s5_pos' = -1
    /\ UNCHANGED <<enc_pam, pam>>

UpdatePam ==
    /\ pam' = update_pam(pam, enc_pam, enc_counter)
    /\ pam_last' = "update"
    /\ pam_gap' = 0
    /\ UNCHANGED <<enc_pam, enc_counter, s5_pos>>

PamNext ==
    \/ \E page \in 0..MaxStampPage :
           EnclavePamUpdate(page) /\ UNCHANGED <<baseVars, dumpVars, twinVars, shadowVars, tlbVars, trapVars, mutexVars>>
    \/ EnclaveScenarioS5 /\ UNCHANGED <<baseVars, dumpVars, twinVars, shadowVars, tlbVars, trapVars, mutexVars>>
    \/ EnclaveCounterDrift /\ UNCHANGED <<baseVars, dumpVars, twinVars, shadowVars, tlbVars, trapVars, mutexVars>>
    \/ UpdatePam /\ UNCHANGED <<baseVars, dumpVars, twinVars, shadowVars, tlbVars, trapVars, mutexVars>>

InitPam == PamNew /\ JpegIdle /\ NextIdle /\ PageAccessIdle /\ ShadowIdle /\ TlbIdle /\ TrapIdle /\ MutexIdle /\ DumpIdle /\ TwinIdle

SpecPam == InitPam /\ [][PamNext]_vars

(***************************************************************************)
(* The trap handler of tlblur's main (SpecTrap): observations, attacker    *)
(* and trace sinks                                                         *)
(*                                                                         *)
(* pte_observations is the set of the values of the HashMap, one per page. *)
(* A dumper is its timestamp, the wires that are high and the last frame   *)
(* written to its file; a frame is the items handed to                     *)
(* write_page_accesses and the wires it raised and lowered.  The erip wire *)
(* is left out.                                                            *)
(***************************************************************************)
\* PageTableObservations::update with the iterator's items as a sequence
RECURSIVE obs_update(_, _)
obs_update(observations, accesses) ==
    IF accesses = <<>> THEN observations
    ELSE LET page == Head(accesses)
             old == {e \in observations : e.page = page.page}
             new_observations ==
                 IF old # {}
                 THEN (observations \ old) \cup {union(e, page) : e \in old}
                 ELSE observations \cup {page}
         IN  obs_update(new_observations, Tail(accesses))

\* a selection that takes every sampled access as missing
MissingPages_All(sample, tlb) == sample

\* the sampled accesses that miss in the TLB, in sample order
MissingPages(sample, tlb) ==
    get_accessed_pages(sample, {a \in SeqRange(sample) : ~test(tlb, a)})

\* Attacker::from(InterruptPattern), with observe_ptes set from Args
Attacker_from(kind, observe_ptes) ==
    [kind |-> kind, live_pages |-> <<>>,
     observe_ptes |-> IF kind = "PageFault" THEN observe_ptes ELSE TRUE]

\* a page-fault attacker that ignores its live pages
can_trigger_interrupt_NoLive(self, sample, tlb) ==
    CASE self.kind = "DebugSingleStep" -> TRUE
      [] self.kind = "SingleStep" -> Len(MissingPages(sample, tlb)) > 0
      [] self.kind = "PageFault" -> Len(MissingPages(sample, tlb)) > 0
      [] self.kind = "Stealthy" -> FALSE

can_trigger_interrupt(self, sample, tlb) ==
    CASE self.kind = "DebugSingleStep" -> TRUE
      [] self.kind = "SingleStep" -> Len(MissingPages(sample, tlb)) > 0
      [] self.kind = "PageFault" ->
             \E i \in 1..Len(MissingPages(sample, tlb)) :
                 MissingPages(sample, tlb)[i].page \notin SeqRange(self.live_pages)
      [] self.kind = "Stealthy" -> FALSE

\* an observe that writes the filtered sample for every attacker
observe_Current(self, sample, tlb, observations) ==
    {a \in SeqRange(MissingPages(sample, tlb)) :
         a.page \notin SeqRange(self.live_pages)}

\* Attacker::observe: the items written to the frame
observe(self, sample, tlb, observations) ==
    IF self.kind = "PageFault" /\ ~self.observe_ptes
    THEN {a \in SeqRange(MissingPages(sample, tlb)) :
              a.page \notin SeqRange(self.live_pages)}
    ELSE observations

\* a can_observe that lets no attacker observe without an interrupt
can_observe_Interrupt(self) == "Interrupt"

can_observe(self) == IF self.kind = "Stealthy" THEN "Always" ELSE "Interrupt"

\* a handle_step that clears the observations for every attacker
handle_step_ClearAll(self, observations) == {}

\* Attacker::handle_step: the new observations
handle_step(self, observations) ==
    IF self.kind = "Stealthy" THEN {} ELSE observations

\* a handle_interrupt that clears live_pages and does not refill them
handle_interrupt_NoLive(self, sample, observations) ==
    CASE self.kind = "PageFault" ->
             [attacker |-> [self EXCEPT !.live_pages = <<>>], observations |-> {}]
      [] self.kind = "Stealthy" -> [attacker |-> self, observations |-> observations]
      [] OTHER -> [attacker |-> self, observations |-> {}]

\* Attacker::handle_interrupt: the new attacker and observations
handle_interrupt(self, sample, observations) ==
    CASE self.kind = "PageFault" ->
             [attacker |-> [self EXCEPT !.live_pages =
                               [i \in 1..Len(sample) |-> sample[i].page]],
              observations |-> {}]
      [] self.kind = "Stealthy" -> [attacker |-> self, observations |-> observations]
      [] OTHER -> [attacker |-> self, observations |-> {}]

\* VCDDumper::new
VCDDumper_new == [some |-> TRUE, ts |-> 0, state |-> {}, frame |-> NoFrame]

\* VCDDumper<RSet>::next_step with a closure that writes items, on an
\* Option<VCDDumper>: RSet::update_state, VCDStatefulSet::update_state and
\* the next_timestamp of the entry's drop
next_step(self, items) ==
    IF ~self.some THEN self
    ELSE LET read == {item.page : item \in {a \in items : a.read}}
         IN  [self EXCEPT
                 !.state = read,
                 !.ts = @ + 1,
                 !.frame = [items |-> items,
                            up |-> read \ self.state,
                            down |-> self.state \ read]]

\* largest number of traps explored
MaxTraps == 3
\* largest number of PAM updates of the enclave explored with the trap handler
MaxTrapStamps == 1

\* the prefetch without the page of tlblur_pam_update
PrefetchPages_NoCode(self_pam, lay) ==
    LET stack_pages ==
            IF lay.stack_page >= 0
            THEN [i \in 1..3 |-> [read |-> TRUE, write |-> FALSE, execute |-> TRUE,
                                  page |-> lay.stack_page - 2 + i]]
            ELSE <<>>
        counter_access == [read |-> TRUE, write |-> TRUE, execute |-> FALSE,
                           page |-> lay.counter_page]
        last_pam == (Len(self_pam.pam_buffer) * 8) \div 4096
        pam_pages == [i \in 1..(last_pam + 1) |->
                         [read |-> TRUE, write |-> TRUE, execute |-> FALSE,
                          page |-> lay.pam_page + i - 1]]
    IN  get_pam(self_pam) \o stack_pages \o <<counter_access>> \o pam_pages

\* the accesses that the handler prefetches after an interrupt, in order:
\* the slots of pam_active, the stack pages when rsp lies in the enclave,
\* the page of tlblur_pam_update, the counter page and the PAM pages
PrefetchPages(self_pam, lay) ==
    LET stack_pages ==
            IF lay.stack_page >= 0
            THEN [i \in 1..3 |-> [read |-> TRUE, write |-> FALSE, execute |-> TRUE,
                                  page |-> lay.stack_page - 2 + i]]
            ELSE <<>>
        code_access == [read |-> TRUE, write |-> FALSE, execute |-> TRUE,
                        page |-> lay.code_page]
        counter_access == [read |-> TRUE, write |-> TRUE, execute |-> FALSE,
                           page |-> lay.counter_page]
        last_pam == (Len(self_pam.pam_buffer) * 8) \div 4096
        pam_pages == [i \in 1..(last_pam + 1) |->
                         [read |-> TRUE, write |-> TRUE, execute |-> FALSE,
                          page |-> lay.pam_page + i - 1]]
    IN  get_pam(self_pam) \o stack_pages \o <<code_access, counter_access>> \o pam_pages

\* a handler that inserts the sampled accesses into the TLB at an interrupt
\* too, after the prefetch
TrapStep_InsertAlways(s, prefetch_off, lay) ==
    LET pam_frame == next_step(s.pam_dumper, SeqRange(get_pam(s.pam)))
        hwtlb_frame == next_step(s.hwtlb_dumper, s.hw_tlb.pages)
        sample == update_page_accesses(s.pt_pages, s.page_table_map)
        observed == obs_update(s.pte_observations, MissingPages(sample, s.hw_tlb))
        may_interrupt == can_trigger_interrupt(s.attacker, sample, s.hw_tlb)
        frame ==
            IF can_observe(s.attacker) = "Always"
               \/ (may_interrupt /\ can_observe(s.attacker) = "Interrupt")
            THEN next_step(s.dumper, observe(s.attacker, sample, s.hw_tlb, observed))
            ELSE s.dumper
        stepped == handle_step(s.attacker, observed)
        interrupted == handle_interrupt(s.attacker, sample, stepped)
        prefetched == IF prefetch_off THEN <<>> ELSE PrefetchPages(s.pam, lay)
    IN  [s EXCEPT
            !.pam_dumper = pam_frame,
            !.hwtlb_dumper = hwtlb_frame,
            !.pt_pages = sample,
            !.dumper = frame,
            !.attacker = IF may_interrupt THEN interrupted.attacker ELSE s.attacker,
            !.pte_observations =
                IF may_interrupt
                THEN obs_update(interrupted.observations, prefetched)
                ELSE stepped,
            !.hw_tlb =
                IF may_interrupt
                THEN update(update(flush(s.hw_tlb), prefetched), sample)
                ELSE update(s.hw_tlb, sample),
            !.page_table_map = clear_all_ad_bits(s.page_table_map)]

\* the handler after the priming check; s.pam is already updated
TrapStep(s, prefetch_off, lay) ==
    LET pam_frame == next_step(s.pam_dumper, SeqRange(get_pam(s.pam)))
        hwtlb_frame == next_step(s.hwtlb_dumper, s.hw_tlb.pages)
        sample == update_page_accesses(s.pt_pages, s.page_table_map)
        observed == obs_update(s.pte_observations, MissingPages(sample, s.hw_tlb))
        may_interrupt == can_trigger_interrupt(s.attacker, sample, s.hw_tlb)
        frame ==
            IF can_observe(s.attacker) = "Always"
               \/ (may_interrupt /\ can_observe(s.attacker) = "Interrupt")
            THEN next_step(s.dumper, observe(s.attacker, sample, s.hw_tlb, observed))
            ELSE s.dumper
        stepped == handle_step(s.attacker, observed)
        interrupted == handle_interrupt(s.attacker, sample, stepped)
        prefetched == IF prefetch_off THEN <<>> ELSE PrefetchPages(s.pam, lay)
    IN  [s EXCEPT
            !.pam_dumper = pam_frame,
            !.hwtlb_dumper = hwtlb_frame,
            !.pt_pages = sample,
            !.dumper = frame,
            !.attacker = IF may_interrupt THEN interrupted.attacker ELSE s.attacker,
            !.pte_observations =
                IF may_interrupt
                THEN obs_update(interrupted.observations, prefetched)
                ELSE stepped,
            !.hw_tlb =
                IF may_interrupt
                THEN update(flush(s.hw_tlb), prefetched)
                ELSE update(s.hw_tlb, sample),
            !.page_table_map = clear_all_ad_bits(s.page_table_map)]

\* a handler without the priming step
trap_handler_NoPriming(s, pam_mem, new_counter, prefetch_off, lay) ==
    TrapStep([s EXCEPT !.pam = update_pam(s.pam, pam_mem, new_counter),
                       !.first_run = FALSE], prefetch_off, lay)

\* the closure given to create_trap_handler
trap_handler(s, pam_mem, new_counter, prefetch_off, lay) ==
    LET updated == [s EXCEPT !.pam = update_pam(s.pam, pam_mem, new_counter)]
    IN  IF updated.first_run
        THEN [updated EXCEPT !.first_run = FALSE,
                             !.page_table_map = clear_all_ad_bits(updated.page_table_map)]
        ELSE TrapStep(updated, prefetch_off, lay)

\* the enclave of the explored runs: page 0 has no entry, pages 1 and 2
\* are mapped and touched by the victim; the other pages are those that
\* the handler prefetches
TrapPageTable ==
    [i \in 1..3 |-> IF i = 1 THEN NoEntry
                    ELSE [some |-> TRUE, present |-> TRUE, accessed |-> FALSE,
                          dirty |-> FALSE]]
\* the victim reads and writes page 1 and reads page 2
TrapAccesses == {<<1, FALSE>>, <<1, TRUE>>, <<2, FALSE>>}
\* the pages that the enclave's instrumentation stamps
TrapStampPages == {0, 2}
Layouts ==
    [stack_page : {-1, 2}, code_page : {4}, counter_page : {5}, pam_page : {6}]
TrapTlbs ==
    {HardwareTLB_Perfect, HardwareTLB_SetAssociative(1, 1), HardwareTLB_SetAssociative(2, 2),
     HardwareTLB_SetAssociative(2, 3)}
Attackers ==
    {Attacker_from(kind, TRUE) : kind \in {"DebugSingleStep", "SingleStep", "PageFault", "Stealthy"}}
    \cup {Attacker_from("PageFault", FALSE)}

\* the state captured by the closure when run_profiler starts the enclave
TrapNew ==
    /\ page_table_map = TrapPageTable
    /\ pt_pages = <<>> /\ pt_last = "new" /\ pt_touched = FALSE /\ pt_prev = <<>>
    /\ hw_tlb \in TrapTlbs
    /\ tlb_hist = <<>> /\ tlb_inserted = {} /\ tlb_last = "new"
    /\ enc_pam = [i \in 1..Len(TrapPageTable) |-> 0]
    /\ enc_counter = 1
    /\ pam = PAM_new(Len(TrapPageTable) * 8, 2)
    /\ pam_last = "new" /\ pam_gap = 0 /\ s5_pos = -1
    /\ attacker \in Attackers
    /\ pte_observations = {}
    /\ first_run = TRUE
    /\ no_prefetch \in BOOLEAN
    /\ layout \in Layouts
    /\ no_prefetch => layout.stack_page = -1
    /\ dumper = VCDDumper_new
    /\ pam_dumper = VCDDumper_new
    /\ hwtlb_dumper = IF hw_tlb.kind = "Perfect" THEN VCDDumper_new ELSE NoDumper
    /\ trap_count = 0
    /\ trap_interrupt = FALSE
    /\ trap_missing = {}
    /\ last_interrupt = [seen |-> FALSE, pages |-> {}]
    /\ trap_entry = [live |-> {}, last |-> [seen |-> FALSE, pages |-> {}]]
    /\ frames_seen = {}

\* one run of the trap handler under the TRAP_HANDLER mutex
Trap ==
    /\ trap_count < MaxTraps
    /\ \E r \in {trap_handler(
                      [pam |-> pam, first_run |-> first_run,
                       page_table_map |-> page_table_map, pt_pages |-> pt_pages,
                       hw_tlb |-> hw_tlb, pte_observations |-> pte_observations,
                       attacker |-> attacker, dumper |-> dumper,
                       pam_dumper |-> pam_dumper, hwtlb_dumper |-> hwtlb_dumper],
                      enc_pam, enc_counter, no_prefetch, layout)} :
       LET sample == r.pt_pages
           may_interrupt == ~first_run /\ can_trigger_interrupt(attacker, sample, hw_tlb)
       IN  /\ pam' = r.pam
           /\ first_run' = r.first_run
           /\ page_table_map' = r.page_table_map
           /\ pt_pages' = r.pt_pages
           /\ hw_tlb' = r.hw_tlb
           /\ pte_observations' = r.pte_observations
           /\ attacker' = r.attacker
           /\ dumper' = r.dumper
           /\ pam_dumper' = r.pam_dumper
           /\ hwtlb_dumper' = r.hwtlb_dumper
           /\ trap_interrupt' = may_interrupt
           /\ trap_missing' = IF first_run THEN {}
                              ELSE {a \in SeqRange(sample) : ~test(hw_tlb, a)}
           /\ last_interrupt' =
                  IF may_interrupt
                  THEN [seen |-> TRUE, pages |-> {sample[i].page : i \in 1..Len(sample)}]
                  ELSE last_interrupt
           /\ pt_prev' = IF first_run THEN pt_prev ELSE pt_pages
           /\ frames_seen' = IF attacker.kind = "Stealthy" /\ r.dumper.ts # dumper.ts
                              THEN frames_seen \cup r.dumper.frame.items
                              ELSE frames_seen
    /\ trap_entry' = [live |-> SeqRange(attacker.live_pages), last |-> last_interrupt]
    /\ trap_count' = trap_count + 1
    /\ pt_last' = "clear"
    /\ pt_touched' = FALSE
    /\ pam_last' = "update"
    /\ pam_gap' = 0
    /\ UNCHANGED <<enc_pam, enc_counter, s5_pos, no_prefetch, layout>>
    /\ UNCHANGED <<tlb_hist, tlb_inserted, tlb_last>>

TrapNext ==
    \/ Trap /\ UNCHANGED <<baseVars, dumpVars, twinVars, mutexVars>>
    \/ \E access \in TrapAccesses :
           /\ trap_count < MaxTraps
           /\ EnclaveAccess(access[1], access[2])
           /\ UNCHANGED <<baseVars, dumpVars, twinVars, tlbVars, pamVars, trapVars, mutexVars>>
    \/ \E page \in TrapStampPages :
           /\ trap_count < MaxTraps
           /\ enc_counter <= MaxTrapStamps
           /\ EnclavePamUpdate(page)
           /\ UNCHANGED <<baseVars, dumpVars, twinVars, shadowVars, tlbVars, trapVars, mutexVars>>

InitTrap == TrapNew /\ JpegIdle /\ NextIdle /\ PageAccessIdle /\ MutexIdle /\ DumpIdle /\ TwinIdle

SpecTrap == InitTrap /\ [][TrapNext]_vars

(***************************************************************************)
(* The handlers and the mutex (SpecMutex)                                  *)
(*                                                                         *)
(* The steps of the main thread and of one handler at a time, as the       *)
(* operating system delivers them: the trap handler of the profiler, and   *)
(* fault_handler and the ocall handlers of the attack driver.  The data is *)
(* reduced to counts of accesses: shared_writes for the state inside the   *)
(* mutex (the closure's captures, GlobalState), atomic_writes for the      *)
(* statics ZERO_COUNT and SKIP_FIRST.                                      *)
(***************************************************************************)
\* largest number of accesses to the state inside the mutex explored
MaxWrites == 3

\* a lock() that does not take the mutex
mutex_lock_Skip(owner, who) == owner

\* Mutex::lock by who, the mutex being free: the new owner
mutex_lock(owner, who) == who

\* an enclave call of the main thread is in progress
EnclaveRunning ==
    main_pc \in {"load_image", "decompress_image", "free_image", "run_profiler"}

\* the handlers that can start at this point of the main thread
Deliverable ==
    CASE main_pc = "run_profiler" -> {"trap"}
      [] main_pc = "decompress_image" ->
             {"next_row", "idct_islow", "all_zero"}
             \cup (IF mx_mode = "fault" THEN {"fault"} ELSE {})
      [] main_pc = "free_image" -> IF mx_mode = "fault" THEN {"fault"} ELSE {}
      [] OTHER -> {}

Written(who, target) ==
    [who |-> who, target |-> target, owner |-> mutex_owner, running |-> EnclaveRunning]

MutexNew ==
    /\ mx_mode \in {"tlblur", "fault", "ocall"}
    /\ main_pc = "setup" /\ h_kind = "none" /\ h_pc = "idle"
    /\ mutex_owner = "none" /\ mx_skip_first = FALSE
    /\ shared_writes = 0 /\ atomic_writes = 0 /\ last_write = NoWrite

\* main builds the state (tlblur's main up to create_trap_handler, or
\* GlobalState::new) and enters the enclave
MainSetup ==
    /\ main_pc = "setup"
    /\ main_pc' = IF mx_mode = "tlblur" THEN "run_profiler" ELSE "load_image"
    /\ last_write' = Written("main", "global")
    /\ UNCHANGED <<mx_mode, h_kind, h_pc, mutex_owner, mx_skip_first, shared_writes,
                   atomic_writes>>

\* attack_enclave between load_image and decompress_image: the handler is
\* registered, data is set up and moved into GLOBAL_STATE
MainConfigure ==
    /\ main_pc = "configure"
    /\ main_pc' = "decompress_image"
    /\ last_write' = Written("main", "global")
    /\ UNCHANGED <<mx_mode, h_kind, h_pc, mutex_owner, mx_skip_first, shared_writes,
                   atomic_writes>>

\* an enclave call returns, no handler being in progress
MainReturn ==
    /\ h_kind = "none"
    /\ main_pc \in {"load_image", "decompress_image", "free_image", "run_profiler"}
    /\ main_pc' = CASE main_pc = "load_image" -> "configure"
                    [] main_pc = "decompress_image" -> "free_image"
                    [] main_pc = "free_image" -> "save"
                    [] main_pc = "run_profiler" -> "done"
    /\ UNCHANGED <<mx_mode, h_kind, h_pc, mutex_owner, mx_skip_first, shared_writes,
                   atomic_writes, last_write>>

\* attack_enclave after sgx_destroy_enclave: lock, read the reconstruction
MainSave ==
    /\ main_pc = "save"
    /\ mutex_owner = "none"
    /\ mutex_owner' = mutex_lock(mutex_owner, "main")
    /\ main_pc' = "saving"
    /\ UNCHANGED <<mx_mode, h_kind, h_pc, mx_skip_first, shared_writes, atomic_writes,
                   last_write>>

MainSaved ==
    /\ main_pc = "saving"
    /\ last_write' = Written("main", "global")
    /\ mutex_owner' = "none"
    /\ main_pc' = "done"
    /\ UNCHANGED <<mx_mode, h_kind, h_pc, mx_skip_first, shared_writes, atomic_writes>>

\* the operating system starts a handler: SIGTRAP is blocked while its
\* handler runs (sigaction without SA_NODEFER), and a fault or an ocall
\* stops the enclave until the handler returns
HandlerStart(kind) ==
    /\ h_kind = "none"
    /\ kind \in Deliverable
    /\ shared_writes < MaxWrites /\ atomic_writes < MaxWrites
    /\ h_kind' = kind /\ h_pc' = "entry"
    /\ UNCHANGED <<mx_mode, main_pc, mutex_owner, mx_skip_first, shared_writes,
                   atomic_writes, last_write>>

\* ocall_next_row, first call: SKIP_FIRST.store(true) and return
NextRowFirst ==
    /\ h_kind = "next_row" /\ h_pc = "entry"
    /\ ~mx_skip_first
    /\ mx_skip_first' = TRUE
    /\ atomic_writes' = atomic_writes + 1
    /\ last_write' = Written(h_kind, "atomic")
    /\ h_pc' = "return"
    /\ UNCHANGED <<mx_mode, main_pc, h_kind, mutex_owner, shared_writes>>

\* ocall_next_row, later calls: SKIP_FIRST.load is true
NextRowCheck ==
    /\ h_kind = "next_row" /\ h_pc = "entry"
    /\ mx_skip_first
    /\ h_pc' = "checked"
    /\ UNCHANGED <<mx_mode, main_pc, h_kind, mutex_owner, mx_skip_first, shared_writes,
                   atomic_writes, last_write>>

\* the lock() of trap_handler_wrapper, fault_handler, ocall_idct_islow, and of
\* ocall_next_row after its check
HandlerLock ==
    /\ \/ h_kind \in {"trap", "fault", "idct_islow"} /\ h_pc = "entry"
       \/ h_kind = "next_row" /\ h_pc = "checked"
    /\ mutex_owner = "none"
    /\ mutex_owner' = mutex_lock(mutex_owner, "handler")
    /\ h_pc' = "locked"
    /\ UNCHANGED <<mx_mode, main_pc, h_kind, mx_skip_first, shared_writes,
                   atomic_writes, last_write>>

\* the body under the guard: the closure of tlblur, fault_handler's
\* transition, or the reconstruction of an ocall when use_ocalls
HandlerBody ==
    /\ h_pc = "locked"
    /\ h_kind \in {"trap", "fault"} \/ mx_mode = "ocall"
    /\ shared_writes' = shared_writes + 1
    /\ last_write' = Written(h_kind, "global")
    /\ h_pc' = IF h_kind = "idct_islow" THEN "store" ELSE "unlock"
    /\ UNCHANGED <<mx_mode, main_pc, h_kind, mutex_owner, mx_skip_first, atomic_writes>>

\* ocall_next_row and ocall_idct_islow when use_ocalls is false
HandlerBodySkip ==
    /\ h_pc = "locked"
    /\ h_kind \in {"next_row", "idct_islow"} /\ mx_mode # "ocall"
    /\ h_pc' = "unlock"
    /\ UNCHANGED <<mx_mode, main_pc, h_kind, mutex_owner, mx_skip_first, shared_writes,
                   atomic_writes, last_write>>

\* ocall_idct_islow: ZERO_COUNT.store(0), the guard still alive
IdctStore ==
    /\ h_kind = "idct_islow" /\ h_pc = "store"
    /\ atomic_writes' = atomic_writes + 1
    /\ last_write' = Written(h_kind, "atomic")
    /\ h_pc' = "unlock"
    /\ UNCHANGED <<mx_mode, main_pc, h_kind, mutex_owner, mx_skip_first, shared_writes>>

\* the guard is dropped where the handler returns
HandlerUnlock ==
    /\ h_pc = "unlock"
    /\ mutex_owner' = "none"
    /\ h_kind' = "none" /\ h_pc' = "idle"
    /\ UNCHANGED <<mx_mode, main_pc, mx_skip_first, shared_writes, atomic_writes,
                   last_write>>

\* ocall_all_zero: ZERO_COUNT.fetch_add(1), no lock
AllZero ==
    /\ h_kind = "all_zero" /\ h_pc = "entry"
    /\ atomic_writes' = atomic_writes + 1
    /\ last_write' = Written(h_kind, "atomic")
    /\ h_pc' = "return"
    /\ UNCHANGED <<mx_mode, main_pc, h_kind, mutex_owner, mx_skip_first, shared_writes>>

\* a handler that holds no guard returns
HandlerReturn ==
    /\ h_pc = "return"
    /\ h_kind' = "none" /\ h_pc' = "idle"
    /\ UNCHANGED <<mx_mode, main_pc, mutex_owner, mx_skip_first, shared_writes,
                   atomic_writes, last_write>>

MutexNext ==
    \/ MainSetup /\ UNCHANGED <<baseVars, dumpVars, twinVars, shadowVars, tlbVars, pamVars, trapVars>>
    \/ MainConfigure /\ UNCHANGED <<baseVars, dumpVars, twinVars, shadowVars, tlbVars, pamVars, trapVars>>
    \/ MainReturn /\ UNCHANGED <<baseVars, dumpVars, twinVars, shadowVars, tlbVars, pamVars, trapVars>>
    \/ MainSave /\ UNCHANGED <<baseVars, dumpVars, twinVars, shadowVars, tlbVars, pamVars, trapVars>>
    \/ MainSaved /\ UNCHANGED <<baseVars, dumpVars, twinVars, shadowVars, tlbVars, pamVars, trapVars>>
    \/ \E kind \in {"trap", "fault", "next_row", "idct_islow", "all_zero"} :
           HandlerStart(kind) /\ UNCHANGED <<baseVars, dumpVars, twinVars, shadowVars, tlbVars, pamVars, trapVars>>
    \/ NextRowFirst /\ UNCHANGED <<baseVars, dumpVars, twinVars, shadowVars, tlbVars, pamVars, trapVars>>
    \/ NextRowCheck /\ UNCHANGED <<baseVars, dumpVars, twinVars, shadowVars, tlbVars, pamVars, trapVars>>
    \/ HandlerLock /\ UNCHANGED <<baseVars, dumpVars, twinVars, shadowVars, tlbVars, pamVars, trapVars>>
    \/ HandlerBody /\ UNCHANGED <<baseVars, dumpVars, twinVars, shadowVars, tlbVars, pamVars, trapVars>>
    \/ HandlerBodySkip /\ UNCHANGED <<baseVars, dumpVars, twinVars, shadowVars, tlbVars, pamVars, trapVars>>
    \/ IdctStore /\ UNCHANGED <<baseVars, dumpVars, twinVars, shadowVars, tlbVars, pamVars, trapVars>>
    \/ HandlerUnlock /\ UNCHANGED <<baseVars, dumpVars, twinVars, shadowVars, tlbVars, pamVars, trapVars>>
    \/ AllZero /\ UNCHANGED <<baseVars, dumpVars, twinVars, shadowVars, tlbVars, pamVars, trapVars>>
    \/ HandlerReturn /\ UNCHANGED <<baseVars, dumpVars, twinVars, shadowVars, tlbVars, pamVars, trapVars>>

InitMutex ==
    MutexNew /\ JpegIdle /\ NextIdle /\ PageAccessIdle /\ ShadowIdle /\ TlbIdle
    /\ PamIdle /\ TrapIdle /\ DumpIdle /\ TwinIdle

SpecMutex == InitMutex /\ [][MutexNext]_vars

(***************************************************************************)
(* The VCD trace sink (SpecDump): VCDDumper<RSet> of profiler/src/dump.rs  *)
(*                                                                         *)
(* state[i + 1] is the value of the wire of page i.  A step hands a        *)
(* sequence of accesses to write_page_accesses; changes are the value      *)
(* changes that the step wrote to the file, in order, and stamp is the     *)
(* timestamp written when the entry is dropped.  The items drawn name      *)
(* pages that have a wire; the erip wire is left out.                      *)
(***************************************************************************)
\* the number of wires of the dumper (num_pages of VCDDumper::new)
MaxWires == 3
\* the largest number of items of one write_page_accesses
MaxItems == 2
\* the largest number of steps explored
MaxDumpSteps == 3

\* VCDStatefulSet::update_state, first loop: raise the wire of each item
\* that is low
RECURSIVE RaiseLoop(_, _, _)
RaiseLoop(state_bits, out, items) ==
    IF items = <<>> THEN [state |-> state_bits, changes |-> out]
    ELSE LET item == Head(items)
         IN  IF ~state_bits[item + 1]
             THEN RaiseLoop([state_bits EXCEPT ![item + 1] = TRUE],
                            Append(out, [wire |-> item, value |-> TRUE]), Tail(items))
             ELSE RaiseLoop(state_bits, out, Tail(items))

\* VCDStatefulSet::update_state, second loop: lower each high wire from
\* item on that items does not contain
RECURSIVE LowerLoop(_, _, _, _)
LowerLoop(state_bits, out, items, item) ==
    IF item >= Len(state_bits) THEN [state |-> state_bits, changes |-> out]
    ELSE IF state_bits[item + 1] /\ item \notin SeqRange(items)
         THEN LowerLoop([state_bits EXCEPT ![item + 1] = FALSE],
                        Append(out, [wire |-> item, value |-> FALSE]), items, item + 1)
         ELSE LowerLoop(state_bits, out, items, item + 1)

\* an update_state that never lowers a wire
update_state_RaiseOnly(state_bits, items) == RaiseLoop(state_bits, <<>>, items)

\* VCDStatefulSet::update_state
update_state(state_bits, items) ==
    LET raised == RaiseLoop(state_bits, <<>>, items)
    IN  LowerLoop(raised.state, raised.changes, items, 0)

\* the pages pushed to self.read by RSet::update_state
ReadPages(items) ==
    LET readable == SelectSeq(items, LAMBDA item : item.read)
    IN  [i \in 1..Len(readable) |-> readable[i].page]

\* RSet::update_state
RSet_update_state(state_bits, items) == update_state(state_bits, ReadPages(items))

\* VCDDumper::next_timestamp
next_timestamp(self) == [self EXCEPT !.ts = @ + 1, !.stamp = self.ts + 1]

\* VCDDumper::next_step with a closure that calls write_page_accesses(items)
\* once; the entry is dropped when the closure returns
VCDDumper_next_step(self, items) ==
    LET written == RSet_update_state(self.state, items)
    IN  next_timestamp([self EXCEPT !.state = written.state,
                                    !.changes = written.changes])

\* the accesses drawn as items: a read of each page, and a write without
\* read of page 0
DumpAccesses ==
    [read : {TRUE}, write : {FALSE}, execute : {FALSE}, page : 0..(MaxWires - 1)]
    \cup {[read |-> FALSE, write |-> TRUE, execute |-> FALSE, page |-> 0]}

\* the sequences of at most n accesses
RECURSIVE ItemSeqs(_)
ItemSeqs(n) ==
    IF n = 0 THEN {<<>>}
    ELSE ItemSeqs(n - 1)
         \cup {Append(q, a) : q \in {x \in ItemSeqs(n - 1) : Len(x) = n - 1},
                              a \in DumpAccesses}

\* the item sequences drawn
DumpItems == ItemSeqs(MaxItems)

\* VCDDumper::new: every wire initialised to false, timestamp 0
DumpNew ==
    /\ vcd = [state |-> [i \in 1..MaxWires |-> FALSE], ts |-> 0,
              changes |-> <<>>, stamp |-> 0]
    /\ vcd_items = <<>>

DumpStep(items) ==
    /\ vcd.ts < MaxDumpSteps
    /\ vcd' = VCDDumper_next_step(vcd, items)
    /\ vcd_items' = items

DumpNext ==
    \E items \in DumpItems :
        /\ DumpStep(items)
        /\ UNCHANGED <<baseVars, twinVars, shadowVars, tlbVars, pamVars, trapVars, mutexVars>>

InitDump ==
    DumpNew /\ JpegIdle /\ NextIdle /\ PageAccessIdle /\ ShadowIdle /\ TlbIdle
    /\ PamIdle /\ TrapIdle /\ MutexIdle /\ TwinIdle

SpecDump == InitDump /\ [][DumpNext]_vars

(***************************************************************************)
(* Two runs of the trap handler side by side (SpecTwin)                    *)
(*                                                                         *)
(* Both runs start from the state that main captures with the SingleStep   *)
(* attacker and the Perfect TLB, read the same enclave memory (page access *)
(* map and counter) and have the same stack pointer; between two traps the *)
(* enclave of each run makes accesses of its own.  A run that has missed   *)
(* the TLB on other accesses than its twin is not followed further.        *)
(***************************************************************************)
\* the largest number of traps of a pair of runs
MaxTwinTraps == 3

\* the A/D bits after the enclave made the accesses <<page, write>>
Touched(map, accesses) ==
    [i \in DOMAIN map |->
        IF map[i].some /\ map[i].present /\ \E a \in accesses : a[1] = i - 1
        THEN [map[i] EXCEPT !.accessed = TRUE,
                            !.dirty = @ \/ \E a \in accesses : a[1] = i - 1 /\ a[2]]
        ELSE map[i]]

\* what the enclave of a run does between two traps: a write sets the bits
\* that a read of the same page sets, so a read next to it adds nothing
TwinAccessSets ==
    {accesses \in SUBSET TrapAccesses :
         \A a \in accesses : a[2] => <<a[1], FALSE>> \notin accesses}

\* the state that the closure captures
TwinStart ==
    [pam |-> PAM_new(Len(TrapPageTable) * 8, 2), first_run |-> TRUE,
     page_table_map |-> TrapPageTable, pt_pages |-> <<>>,
     hw_tlb |-> HardwareTLB_Perfect, pte_observations |-> {},
     attacker |-> Attacker_from("SingleStep", TRUE), dumper |-> VCDDumper_new,
     pam_dumper |-> VCDDumper_new, hwtlb_dumper |-> VCDDumper_new]

\* one run of the closure after the enclave made the accesses
TwinRun(s, accesses) ==
    trap_handler([s EXCEPT !.page_table_map = Touched(@, accesses)],
                 tw_enc.pam, tw_enc.counter, tw_cfg.no_prefetch, tw_cfg.layout)

\* the main trace after a run of the closure
TwinTrace(trace, s, after) ==
    IF after.dumper.ts # s.dumper.ts THEN Append(trace, after.dumper.frame) ELSE trace

TwinNew ==
    /\ tw_a = TwinStart /\ tw_b = TwinStart
    /\ tw_enc = [pam |-> [i \in 1..Len(TrapPageTable) |-> 0], counter |-> 1]
    /\ \E prefetch_off \in BOOLEAN : \E lay \in Layouts :
           /\ prefetch_off => lay.stack_page = -1
           /\ tw_cfg = [no_prefetch |-> prefetch_off, layout |-> lay]
    /\ tw_trace_a = <<>> /\ tw_trace_b = <<>>
    /\ tw_agree = TRUE /\ tw_differed = FALSE /\ tw_traps = 0

\* a trap in both runs, after the accesses of each run's enclave
TwinTrap(accesses_a, accesses_b) ==
    /\ tw_traps < MaxTwinTraps
    /\ tw_agree
    /\ \E ra \in {TwinRun(tw_a, accesses_a)} : \E rb \in {TwinRun(tw_b, accesses_b)} :
           /\ tw_a' = ra /\ tw_b' = rb
           /\ tw_trace_a' = TwinTrace(tw_trace_a, tw_a, ra)
           /\ tw_trace_b' = TwinTrace(tw_trace_b, tw_b, rb)
           /\ tw_agree' =
                  (tw_a.first_run
                   \/ {a \in SeqRange(ra.pt_pages) : ~test(tw_a.hw_tlb, a)}
                      = {a \in SeqRange(rb.pt_pages) : ~test(tw_b.hw_tlb, a)})
           /\ tw_differed' = (tw_differed \/ (~tw_a.first_run /\ ra.pt_pages # rb.pt_pages))
    /\ tw_traps' = tw_traps + 1
    /\ UNCHANGED <<tw_enc, tw_cfg>>

\* the enclave's instrumentation stamps a page, in both runs alike
TwinStamp(page) ==
    /\ tw_traps < MaxTwinTraps
    /\ tw_agree
    /\ tw_enc.counter <= MaxTrapStamps
    /\ tw_enc' = [pam |-> [tw_enc.pam EXCEPT ![page + 1] = tw_enc.counter],
                  counter |-> tw_enc.counter + 1]
    /\ UNCHANGED <<tw_a, tw_b, tw_cfg, tw_trace_a, tw_trace_b, tw_agree, tw_differed,
                   tw_traps>>

TwinNext ==
    \/ \E accesses_a \in TwinAccessSets : \E accesses_b \in TwinAccessSets :
           /\ TwinTrap(accesses_a, accesses_b)
           /\ UNCHANGED <<baseVars, dumpVars, shadowVars, tlbVars, pamVars, trapVars, mutexVars>>
    \/ \E page \in TrapStampPages :
           /\ TwinStamp(page)
           /\ UNCHANGED <<baseVars, dumpVars, shadowVars, tlbVars, pamVars, trapVars, mutexVars>>

InitTwin ==
    TwinNew /\ JpegIdle /\ NextIdle /\ PageAccessIdle /\ ShadowIdle /\ TlbIdle
    /\ PamIdle /\ TrapIdle /\ MutexIdle /\ DumpIdle

SpecTwin == InitTwin /\ [][TwinNext]_vars

(***************************************************************************)
(* Properties of JpegState::next (SpecNext)                                *)
(***************************************************************************)
\* the positions of the successors of s whose page range contains p
Hits(s, p, aex) ==
    {i \in DOMAIN next_states(s) : Contains(pages(next_states(s)[i], aex), p)}

\* C5: selection rule.  The result of next is the first state of the
\* successor list whose page range contains the faulting page, and the
\* state itself when no successor's range contains it; from PreStart a fault
\* on page 100 yields PreStart and from Start a fault on page 58 yields
\* StartRow.
C5_SelectionRule ==
    nx_done =>
        LET hits == Hits(nx_self, nx_page, nx_aex) IN
        /\ hits = {} => nx_result = nx_self
        /\ hits # {} =>
              \E i \in hits :
                  /\ \A j \in hits : i <= j
                  /\ nx_result = next_states(nx_self)[i]
        /\ (nx_self = PreStart /\ nx_page = 100) => nx_result = PreStart
        /\ (nx_self = Start /\ nx_page = 58) => nx_result = StartRow

\* C5 witness: next was applied to a state with several successors and
\* chose the second, and was applied to a page of no successor
C5_Witness ==
    /\ nx_done
    /\ \/ nx_self = PreIdctSlow /\ nx_page = 44 /\ nx_result = NextRow
       \/ nx_self = Start /\ nx_page = 58 /\ nx_result = StartRow

\* the DataCount page range selected by the flag, as the table states it
InDataCountRange(p, aex) == 150 <= p /\ p < (IF aex THEN 4335 ELSE 4340)

\* C6: from DataCount(n) a fault on page p yields DataCount(n+1) iff p lies
\* in [150, 4340) without AEX-Notify, in [150, 4335) with it; without
\* AEX-Notify pages 4336 and 4338 take DataCount(3) to DataCount(4).
C6_DataCountRange ==
    (nx_done /\ IsDataCount(nx_self)) =>
        /\ (nx_result = DataCount(nx_self.n + 1)) <=> InDataCountRange(nx_page, nx_aex)
        /\ (~nx_aex /\ nx_self = DataCount(3) /\ nx_page \in {4336, 4338})
               => nx_result = DataCount(4)

\* C6 witness: without AEX-Notify, page 4336 took DataCount(3) to DataCount(4)
C6_Witness ==
    /\ nx_done /\ ~nx_aex
    /\ nx_self = DataCount(3) /\ nx_page = 4336 /\ nx_result = DataCount(4)

\* C7 as claimed: with AEX-Notify, from DataCount(3) a fault on page 4338
\* yields DataCount(4) and a fault on page 4336 yields PreIdctSlow.
C7_Original ==
    (nx_done /\ nx_aex /\ nx_self = DataCount(3)) =>
        /\ nx_page = 4338 => nx_result = DataCount(4)
        /\ nx_page = 4336 => nx_result = PreIdctSlow

\* C7 amended: with AEX-Notify, from DataCount(3) a fault on page 4338 and a
\* fault on page 4336 both leave the state at DataCount(3): neither page is
\* in [150, 4335) nor in the range of PreIdctSlow or NextRow.
C7_AexNotifyStays ==
    (nx_done /\ nx_aex /\ nx_self = DataCount(3) /\ nx_page \in {4336, 4338})
        => nx_result = DataCount(3)

\* C7 witness: with AEX-Notify, next was applied to DataCount(3) and page 4338
C7_Witness ==
    /\ nx_done /\ nx_aex
    /\ nx_self = DataCount(3) /\ nx_page = 4338 /\ nx_result = DataCount(3)

(***************************************************************************)
(* Properties of PageAccess (SpecPageAccess)                               *)
(***************************************************************************)
\* the permission bits set in a PageAccess
Perms(x) ==
    (IF x.read THEN {"read"} ELSE {})
        \cup (IF x.write THEN {"write"} ELSE {})
        \cup (IF x.execute THEN {"execute"} ELSE {})

\* C9 as claimed: for all a, b with a.page = b.page, a.covers(a.union(b)).
C9_Original ==
    (pa_done = 2 /\ pa_a.page = pa_b.page) => pa_covers.a_u

\* C9 amended: for all a, b with a.page = b.page, a.union(b) covers a and
\* covers b; a covers a.union(b) exactly when a covers b.
C9_UnionCovers ==
    (pa_done = 2 /\ pa_a.page = pa_b.page) =>
        /\ pa_covers.u_a
        /\ pa_covers.u_b
        /\ pa_covers.a_u <=> pa_covers.a_b

\* C9 witness: the union of a and b, on one page, has a bit that a lacks
C9_Witness ==
    /\ pa_done = 2
    /\ pa_a.page = pa_b.page
    /\ Perms(pa_union) # Perms(pa_a)
    /\ pa_covers.u_a /\ ~pa_covers.a_u

\* C10: a.covers(b) iff a.page = b.page and every permission bit set in b
\* is set in a; accesses to different pages never cover each other.
C10_CoversIffSubset ==
    pa_done = 2 =>
        /\ pa_covers.a_b <=> (pa_a.page = pa_b.page /\ Perms(pa_b) \subseteq Perms(pa_a))
        /\ pa_a.page # pa_b.page => ~pa_covers.a_b

\* C10 witness: a covers a b with fewer permissions
C10_Witness ==
    /\ pa_done = 2
    /\ pa_covers.a_b
    /\ Perms(pa_b) # Perms(pa_a)
    /\ Perms(pa_b) # {}

(***************************************************************************)
(* Properties of the attack driver (Spec)                                  *)
(***************************************************************************)
Buffer(r) == r.reconstructed_buffer

\* the faults so far were exactly ScenarioS1, replayed in greyscale without
\* AEX-Notify
S1Replayed ==
    /\ s1_pos = Len(ScenarioS1)
    /\ reconstruct.num_colors = 1
    /\ ~has_aexnotify

\* C1 as claimed: replaying ScenarioS1 from PreStart with num_colors = 1 and
\* aexnotify = false ends with buffer [[[2, 1], [1]]], min_data = 1 and
\* max_data = 2.
C1_Original ==
    S1Replayed =>
        /\ Buffer(reconstruct) = << << <<2, 1>>, <<1>> >> >>
        /\ reconstruct.min_data = 1
        /\ reconstruct.max_data = 2

\* C1 amended: the replay ends with buffer [[[3, 1], []]], min_data = 1 and
\* max_data = 3, in state DataCount(1): the first block counts the three
\* faults 150, 151, 150, and the block being counted when the trace ends is
\* not committed.
C1_ReplayS1 ==
    S1Replayed =>
        /\ Buffer(reconstruct) = << << <<3, 1>>, <<>> >> >>
        /\ reconstruct.min_data = 1
        /\ reconstruct.max_data = 3
        /\ state = DataCount(1)

\* C1 witness: the trace replay has fed the whole of ScenarioS1
C1_Witness == mode = "trace" /\ S1Replayed

\* the blocks of r2 are those of r1 followed by one block of count n, in
\* one channel
CommitsOne(r1, r2, n) ==
    \E c \in 1..r1.num_colors :
        /\ reconstruction(r2, c) = Append(reconstruction(r1, c), n)
        /\ \A d \in 1..r1.num_colors : d # c => reconstruction(r2, d) = reconstruction(r1, d)

CommitsNothing(r1, r2) ==
    \A c \in 1..r1.num_colors : reconstruction(r2, c) = reconstruction(r1, c)

\* C2: block commit law.  Over any sequence of page faults from PreStart, in
\* DataCount(n) the count n is the number of DataCount transitions since the
\* last non-DataCount state; a fault leaving DataCount(n) for a non-DataCount
\* state commits exactly the value n, and every other fault commits nothing.
C2_BlockCommitLaw ==
    /\ [](IsDataCount(state) => state.n = dc_faults)
    /\ [][ mode # "ocalls" =>
             IF IsDataCount(state) /\ ~IsDataCount(state')
             THEN /\ CommitsOne(reconstruct, reconstruct', state.n)
                  /\ state.n = dc_faults
             ELSE CommitsNothing(reconstruct, reconstruct') ]_vars

\* C2 witness: the state machine has committed a block of count 2 and one
\* of count 1
C2_Witness ==
    /\ mode # "ocalls"
    /\ {1, 2} \subseteq CommittedCounts(reconstruct)

\* C3: row law.  num_colors is 1 or 3 and every colour channel has exactly
\* current_row + 1 rows; current_row changes only on a NextRow -> StartRow
\* transition or on a next_row call of the ocall path, and then grows by 1
\* while one empty row is appended to every channel; every NextRow ->
\* StartRow transition advances the row.
C3_RowLaw ==
    /\ [](/\ reconstruct.num_colors \in {1, 3}
          /\ DOMAIN Buffer(reconstruct) = 1..reconstruct.num_colors
          /\ \A c \in 1..reconstruct.num_colors :
                 Len(Buffer(reconstruct)[c]) = reconstruct.current_row + 1)
    /\ [][ /\ (state = NextRow /\ state' = StartRow)
               => reconstruct'.current_row = reconstruct.current_row + 1
           /\ reconstruct'.current_row # reconstruct.current_row =>
               /\ (state = NextRow /\ state' = StartRow) \/ (use_ocalls /\ SKIP_FIRST)
               /\ reconstruct'.current_row = reconstruct.current_row + 1
               /\ \A c \in 1..reconstruct.num_colors :
                      Buffer(reconstruct')[c] = Append(Buffer(reconstruct)[c], <<>>) ]_vars

\* C3 witness: with three channels, a NextRow -> StartRow transition has
\* advanced the row after a block was committed
C3_Witness ==
    /\ reconstruct.num_colors = 3
    /\ state = StartRow
    /\ reconstruct.current_row = 1
    /\ NumBlocks(reconstruct) >= 1

\* C4: a block commit appends the count to buffer[current_color][current_row]
\* and sets current_color to (current_color + 1) mod num_colors; nothing
\* else changes current_color; current_color < num_colors, and after k
\* commits current_color = k mod num_colors.
C4_ColorAdvance ==
    /\ [](/\ reconstruct.current_color < reconstruct.num_colors
          /\ reconstruct.current_color = NumBlocks(reconstruct) % reconstruct.num_colors)
    /\ [][ LET c   == reconstruct.current_color + 1
               row == reconstruct.current_row + 1
           IN  IF NumBlocks(reconstruct') # NumBlocks(reconstruct)
               THEN /\ Len(Buffer(reconstruct')[c][row]) = Len(Buffer(reconstruct)[c][row]) + 1
                    /\ Buffer(reconstruct') =
                         [Buffer(reconstruct) EXCEPT
                             ![c][row] = Append(@, Buffer(reconstruct')[c][row][Len(@) + 1])]
                    /\ reconstruct'.current_color =
                         (reconstruct.current_color + 1) % reconstruct.num_colors
               ELSE reconstruct'.current_color = reconstruct.current_color ]_vars

\* C4 witness: with three channels, the third commit has wrapped
\* current_color back to 0
C4_Witness ==
    /\ reconstruct.num_colors = 3
    /\ NumBlocks(reconstruct) = 3
    /\ reconstruct.current_color = 0

SetMin(S) == CHOOSE x \in S : \A y \in S : x <= y
SetMax(S) == CHOOSE x \in S : \A y \in S : x >= y

\* C8: after any non-empty sequence of block commits, by the state machine
\* or by the ocall path, with any count >= 0, min_data is the smallest and
\* max_data the largest committed count.
C8_MinMaxTrackExtremes ==
    NumBlocks(reconstruct) >= 1 =>
        /\ reconstruct.min_data = SetMin(CommittedCounts(reconstruct))
        /\ reconstruct.max_data = SetMax(CommittedCounts(reconstruct))

(***************************************************************************)
(* Properties of the PageTable shadow (SpecShadow)                         *)
(***************************************************************************)
\* the pages whose entry is live, present and has its A bit set
AccessedPresent ==
    {i \in 0..(Len(page_table_map) - 1) :
        /\ page_table_map[i + 1].some
        /\ page_table_map[i + 1].present
        /\ page_table_map[i + 1].accessed}

\* the sample lists exactly the pages of AccessedPresent, each once, with
\* read = true, write = the D bit and execute = false
SampleIsExact ==
    /\ Len(pt_pages) = Cardinality(AccessedPresent)
    /\ {pt_pages[k].page : k \in 1..Len(pt_pages)} = AccessedPresent
    /\ \A k \in 1..Len(pt_pages) :
           /\ pt_pages[k].read
           /\ ~pt_pages[k].execute
           /\ pt_pages[k].write = page_table_map[pt_pages[k].page + 1].dirty

\* C11: clear_all_ad_bits leaves no A or D bit set; a sample taken when no A
\* bit was set since the last clear is empty, whatever the sample before
\* held; and every sample lists exactly the live, present entries whose A
\* bit is set, with read = true, write = the D bit and execute = false.
C11_SampleAfterReset ==
    /\ pt_last = "clear" =>
           \A i \in DOMAIN page_table_map :
               ~page_table_map[i].accessed /\ ~page_table_map[i].dirty
    /\ pt_last = "sample" =>
           /\ SampleIsExact
           /\ ~pt_touched => pt_pages = <<>>

\* the sample before held a written page and a page that was only read,
\* the bits were cleared, and the sample taken with no access in between
\* is empty
C11_Witness ==
    /\ pt_last = "sample"
    /\ ~pt_touched
    /\ pt_pages = <<>>
    /\ \E k \in 1..Len(pt_prev) : pt_prev[k].write
    /\ \E k \in 1..Len(pt_prev) : ~pt_prev[k].write

(***************************************************************************)
(* Properties of the simulated hardware TLB (SpecTlb)                      *)
(***************************************************************************)
\* the accesses inserted since the last flush that map to the set of index s
SetHist(s) == SelectSeq(tlb_hist, LAMBDA a : get_set_index(a, hw_tlb.num_sets) = s)

\* every page number of h comes with one permission combination only
SamePermissions(h) ==
    \A i, j \in 1..Len(h) : h[i].page = h[j].page => h[i] = h[j]

\* the position of the last occurrence of a in h
LastUse(h, a) == CHOOSE i \in 1..Len(h) : h[i] = a /\ \A j \in (i + 1)..Len(h) : h[j] # a

\* the accesses held by the set of index s, least recently used first
WaysPages(s) ==
    [i \in 1..Len(hw_tlb.sets[s + 1].ways) |-> hw_tlb.sets[s + 1].ways[i].page]

\* w holds the k most recently used distinct accesses of h, ordered by
\* their last use
IsLruOf(w, h, k) ==
    /\ Len(w) = Min2(k, Cardinality(SeqRange(h)))
    /\ SeqRange(w) \subseteq SeqRange(h)
    /\ \A i, j \in 1..Len(w) : i < j => LastUse(h, w[i]) < LastUse(h, w[j])
    /\ \A a \in SeqRange(h) \ SeqRange(w) :
           \A i \in 1..Len(w) : LastUse(h, a) < LastUse(h, w[i])

\* the page numbers of the accesses inserted since the last flush
HistPages == [i \in 1..Len(tlb_hist) |-> tlb_hist[i].page]

\* C12: every entry sits in the set page mod num_sets; when each page was
\* inserted with one permission combination, a set of capacity k holds the
\* k most recently inserted distinct pages in the order of their last
\* insertion (k+1 distinct pages evict the first, a re-inserted page moves
\* to the MRU position); with sets=2, ways=2, after pages 0, 2, 4 the
\* lookup of page 0 misses and those of pages 2 and 4 hit.
C12_SetAssociativeLru ==
    hw_tlb.kind = "SetAssociative" =>
        /\ \A s \in 0..(hw_tlb.num_sets - 1) :
               /\ \A i \in 1..Len(WaysPages(s)) :
                      WaysPages(s)[i].page % hw_tlb.num_sets = s
               /\ SamePermissions(SetHist(s)) =>
                      IsLruOf(WaysPages(s), SetHist(s), hw_tlb.sets[s + 1].capacity)
        /\ (hw_tlb.num_sets = 2 /\ hw_tlb.ways_per_set = 2 /\ HistPages = <<0, 2, 4>>) =>
               /\ ~test(hw_tlb, tlb_hist[1])
               /\ test(hw_tlb, tlb_hist[2])
               /\ test(hw_tlb, tlb_hist[3])

\* sets=2, ways=2: pages 0 and 2 fill set 0, page 0 is inserted again and
\* page 4 then evicts page 2, not the promoted page 0
C12_Witness ==
    /\ hw_tlb.kind = "SetAssociative"
    /\ hw_tlb.num_sets = 2 /\ hw_tlb.ways_per_set = 2
    /\ HistPages = <<0, 2, 0, 4>>
    /\ SamePermissions(tlb_hist)
    /\ WaysPages(0) = <<tlb_hist[1], tlb_hist[4]>>
    /\ ~test(hw_tlb, tlb_hist[2])

\* C13: each set of the set-associative TLB holds at most one valid entry
\* per page number.
C13_OneEntryPerPage ==
    hw_tlb.kind = "SetAssociative" =>
        \A s \in DOMAIN hw_tlb.sets :
            \A i, j \in 1..Len(hw_tlb.sets[s].ways) :
                (/\ i # j
                 /\ hw_tlb.sets[s].ways[i].valid
                 /\ hw_tlb.sets[s].ways[j].valid)
                => hw_tlb.sets[s].ways[i].page.page # hw_tlb.sets[s].ways[j].page.page

\* C14: the perfect TLB hits on q exactly when an access inserted since the
\* last flush covers q; after {p, read, write, execute} the tests of
\* {p, read}, {p, write} and {p, execute} hit; after flush every test misses.
C14_PerfectSubsumption ==
    hw_tlb.kind = "Perfect" =>
        /\ \A q \in TlbInputs(hw_tlb) :
               test(hw_tlb, q) <=> \E a \in tlb_inserted : covers(a, q)
        /\ \A p \in {0, 1} :
               [read |-> TRUE, write |-> TRUE, execute |-> TRUE, page |-> p] \in tlb_inserted
               => /\ test(hw_tlb, [read |-> TRUE, write |-> FALSE, execute |-> FALSE, page |-> p])
                  /\ test(hw_tlb, [read |-> FALSE, write |-> TRUE, execute |-> FALSE, page |-> p])
                  /\ test(hw_tlb, [read |-> FALSE, write |-> FALSE, execute |-> TRUE, page |-> p])
        /\ tlb_last = "flush" => \A q \in TlbInputs(hw_tlb) : ~test(hw_tlb, q)

\* only {1, read, write, execute} was inserted: the three single-permission
\* tests of page 1 hit and the test of page 0 misses
C14_Witness ==
    /\ hw_tlb.kind = "Perfect"
    /\ tlb_inserted = {[read |-> TRUE, write |-> TRUE, execute |-> TRUE, page |-> 1]}
    /\ test(hw_tlb, [read |-> TRUE, write |-> FALSE, execute |-> FALSE, page |-> 1])
    /\ test(hw_tlb, [read |-> FALSE, write |-> TRUE, execute |-> FALSE, page |-> 1])
    /\ test(hw_tlb, [read |-> FALSE, write |-> FALSE, execute |-> TRUE, page |-> 1])
    /\ ~test(hw_tlb, [read |-> TRUE, write |-> FALSE, execute |-> FALSE, page |-> 0])

(***************************************************************************)
(* Properties of the PAM mirror (SpecPam)                                  *)
(***************************************************************************)
\* the pages held by the used slots of pam_active
ActivePages ==
    {pam.pam_active[i].page : i \in {j \in 1..Len(pam.pam_active) : pam.pam_active[j].read}}

\* the pages with a non-zero counter in pam_buffer
StampedPages == {q \in 0..(Len(pam.pam_buffer) - 1) : pam.pam_buffer[q + 1] > 0}

\* C15: after an update_pam step, whatever number of PAM updates the
\* enclave made between the steps, pam_active holds exactly the (up to)
\* pws_size pages with the highest non-zero counters of pam_buffer.
C15_PamConvergence ==
    pam_last = "update" =>
        /\ Cardinality(ActivePages) = Min2(Len(pam.pam_active), Cardinality(StampedPages))
        /\ ActivePages \subseteq StampedPages
        /\ \A q \in ActivePages : \A r \in StampedPages \ ActivePages :
               pam.pam_buffer[q + 1] >= pam.pam_buffer[r + 1]

\* C16: scenario S5, pws_size = 2 and pam_active empty at the start: after
\* the update_pam steps that read the three memory images (counter 5, 7, 9;
\* pages 2, 4, 6 stamped in turn) pam_active holds the pages {4, 6}.
C16_ScenarioS5 ==
    (s5_pos > 0 /\ pam_last = "update") =>
        /\ s5_pos = 1 => ActivePages = {2}
        /\ s5_pos = 2 => ActivePages = {2, 4}
        /\ s5_pos = 3 => ActivePages = {4, 6}

\* the third image of S5 has been read: the mirror's counter is 9 and page
\* 6 took the slot of page 2
C16_Witness ==
    /\ s5_pos = 3
    /\ pam_last = "update"
    /\ pam.pam_counter = 9
    /\ pam.pam_buffer[7] = 9
    /\ ActivePages = {4, 6}

(***************************************************************************)
(* Properties of the trap handler (SpecTrap)                               *)
(***************************************************************************)
\* the last trap was not the priming one
AfterStep == trap_count >= 2

\* the page numbers of the last sample
SampledPages == {pt_pages[i].page : i \in 1..Len(pt_pages)}

\* C17: at a trap DebugSingleStep can always interrupt and Stealthy never;
\* SingleStep can iff a sampled access misses in the TLB; PageFault can iff
\* a sampled access misses in the TLB and its page is not in live_pages.
C17_AttackerInterruption ==
    AfterStep =>
        trap_interrupt =
            CASE attacker.kind = "DebugSingleStep" -> TRUE
              [] attacker.kind = "Stealthy" -> FALSE
              [] attacker.kind = "SingleStep" -> trap_missing # {}
              [] attacker.kind = "PageFault" ->
                     \E a \in trap_missing : a.page \notin trap_entry.live

\* a page-fault attacker did not interrupt although a sampled access missed
\* in the TLB, because the page was live
C17_Witness ==
    /\ AfterStep
    /\ attacker.kind = "PageFault"
    /\ ~trap_interrupt
    /\ trap_missing # {}
    /\ \A a \in trap_missing : a.page \in trap_entry.live

\* C18: after a trap at which the PageFault attacker interrupted with the
\* sampled pages L, a following trap whose sampled pages all belong to L
\* does not interrupt, whatever the TLB holds.
C18_LiveSet ==
    (/\ AfterStep
     /\ attacker.kind = "PageFault"
     /\ trap_entry.last.seen
     /\ SampledPages \subseteq trap_entry.last.pages)
    => ~trap_interrupt

\* the interrupt sampled pages {1, 2}; the next step touched page 1 only,
\* which missed in the TLB, and did not interrupt
C18_Witness ==
    /\ AfterStep
    /\ attacker.kind = "PageFault"
    /\ trap_entry.last.seen
    /\ trap_entry.last.pages = {1, 2}
    /\ SampledPages = {1}
    /\ trap_missing # {}
    /\ ~trap_interrupt

\* only the priming trap has run
Primed == trap_count = 1 /\ ~first_run

\* what the priming trap leaves alone: the TLB, the observations, the
\* attacker, the sample and the trace sinks, with the A/D bits cleared
PrimingLeavesRest ==
    /\ hw_tlb \in TrapTlbs
    /\ pte_observations = {}
    /\ attacker \in Attackers
    /\ pt_pages = <<>>
    /\ dumper = VCDDumper_new
    /\ pam_dumper \in {VCDDumper_new, NoDumper}
    /\ hwtlb_dumper \in {VCDDumper_new, NoDumper}
    /\ pt_last = "clear" =>
           \A i \in DOMAIN page_table_map :
               ~page_table_map[i].accessed /\ ~page_table_map[i].dirty

\* C19 as stated: the priming trap also leaves pam_buffer, pam_active and
\* pam_counter as PAM::new made them, whatever the enclave's counter is.
C19_Original ==
    Primed =>
        /\ pam = PAM_new(Len(pam.pam_buffer), Len(pam.pam_active))
        /\ PrimingLeavesRest

\* C19: the priming trap runs update_pam, so the PAM mirror follows the
\* enclave's map and counter, then clears the A/D bits and returns; it
\* leaves the TLB, the observations, the attacker and every trace sink
\* unchanged.
C19_PrimingStep ==
    Primed =>
        /\ pam_last = "update" =>
               pam = update_pam(PAM_new(Len(pam.pam_buffer), Len(pam.pam_active)),
                                enc_pam, enc_counter)
        /\ PrimingLeavesRest

\* the enclave stamped page 2 before the first trap: after the priming trap
\* the mirror holds page 2 and the counter 2, the TLB is empty and no frame
\* was written
C19_Witness ==
    /\ Primed
    /\ pam_last = "update"
    /\ pt_last = "clear"
    /\ pam.pam_counter = 2
    /\ ActivePages = {2}
    /\ hw_tlb \in TrapTlbs
    /\ dumper.ts = 0
(***************************************************************************)
(* Properties of the handlers and the mutex (SpecMutex)                    *)
(***************************************************************************)
\* a handler holds the mutex at this point of its code
HoldsMutex == h_pc \in {"locked", "store", "unlock"}

\* the main thread touches the state only while no enclave call is in
\* progress, the mutex is held only by a handler in progress or by main
\* after the enclave is destroyed, and at most one handler is in progress
MainOutsideEnclave ==
    /\ last_write.who = "main" => ~last_write.running
    /\ mutex_owner = "handler" => h_kind # "none" /\ HoldsMutex
    /\ mutex_owner = "main" => main_pc = "saving" /\ h_kind = "none"
    /\ h_kind # "none" => EnclaveRunning

IsPrefix(a, b) == Len(a) <= Len(b) /\ a = SubSeq(b, 1, Len(a))

\* the order of the steps of the page-fault attack in the code
CodeOrder ==
    <<"create", "load_image", "register", "revoke", "decompress_image",
      "free_image", "destroy", "emit">>

\* the order with the handler registered and the pages revoked first
HandlerFirstOrder ==
    <<"create", "register", "revoke", "load_image", "decompress_image",
      "free_image", "destroy", "emit">>

\* the pages of PreStart's successors
InitialPages == protect_next_pages(PreStart, FALSE, {})

\* C21 as stated: the steps occur in the order create, register, revoke,
\* load_image, decompress_image, free_image, destroy, emit, so the handler
\* is registered and the initial pages are revoked before load_image.
C21_Original ==
    mode = "enclave" =>
        /\ IsPrefix(drv_log, HandlerFirstOrder)
        /\ drv_pc = "done" => drv_log = HandlerFirstOrder

\* C21: Attack driver ordering.  In the page-fault attack the steps occur
\* in the order: create the enclave; call load_image; register the fault
\* handler; revoke the pages of PreStart's successors; call decompress_image,
\* then free_image; destroy the enclave; emit the reconstruction.  The
\* handler is registered and the initial pages are revoked before
\* decompress_image and free_image are called, and after load_image.
C21_DriverOrder ==
    mode = "enclave" =>
        /\ IsPrefix(drv_log, CodeOrder)
        /\ drv_pc = "done" => drv_log = CodeOrder
        /\ InEnclave => handler_registered
        /\ (drv_pc = "in_decompress" /\ drv_events = 0) => InitialPages \subseteq revoked
        /\ drv_pc \in {"create", "load_image", "configure"} =>
               ~handler_registered /\ revoked = {}

\* a run of the page-fault attack that handled faults has ended
C21_Witness ==
    /\ mode = "enclave" /\ drv_pc = "done"
    /\ drv_log = CodeOrder /\ drv_events > 0

\* C22: Enclave destruction on any exit path.  Once the enclave has been
\* created, every way the run ends (normal completion, a failing
\* load_image, decompress_image or free_image, a failing revoke or restore
\* in the fault handler) has destroyed the enclave.
C22_DestroyOnExit ==
    drv_pc \in {"done", "panicked"} => enclave = "destroyed"

(***************************************************************************)
(* Properties of the prefetch (SpecTrap)                                   *)
(***************************************************************************)
\* the access with which the handler prefetches the page of tlblur_pam_update
CodeAccess ==
    [read |-> TRUE, write |-> FALSE, execute |-> TRUE, page |-> layout.code_page]

\* the accesses prefetched after CodeAccess (the counter page and the PAM
\* pages) that fall into the set of CodeAccess
LaterInSet ==
    {a \in SeqRange(PrefetchPages(pam, layout)) :
        /\ a.write /\ ~a.execute
        /\ get_set_index(a, hw_tlb.num_sets) = get_set_index(CodeAccess, hw_tlb.num_sets)}

\* C23 as stated: after every trap where the attacker interrupts and the
\* prefetch is on, the TLB hits on a read+execute access to the page of
\* tlblur_pam_update, whatever the TLB is.
C23_Original ==
    (trap_interrupt /\ ~no_prefetch) => test(hw_tlb, CodeAccess)

\* C23: at every trap where the attacker interrupts and the prefetch is
\* on, the handler prefetches the page of tlblur_pam_update with a
\* read+execute access; when it returns the Perfect TLB hits on that access,
\* and a set-associative TLB hits on it when fewer than ways_per_set of the
\* accesses prefetched after it fall into its set.
C23_CodePagePrefetched ==
    (trap_interrupt /\ ~no_prefetch) =>
        /\ hw_tlb.kind = "Perfect" => test(hw_tlb, CodeAccess)
        /\ (hw_tlb.kind = "SetAssociative"
            /\ Cardinality(LaterInSet) < hw_tlb.ways_per_set) => test(hw_tlb, CodeAccess)

\* an interrupt with the prefetch on has left the code page in a
\* set-associative TLB
C23_Witness ==
    /\ trap_interrupt /\ ~no_prefetch
    /\ hw_tlb.kind = "SetAssociative"
    /\ LaterInSet # {}
    /\ test(hw_tlb, CodeAccess)

(***************************************************************************)
(* The transition relation of JpegState (Spec)                             *)
(***************************************************************************)
\* the changes of state the transition relation lists
ListedChange(from, to) ==
    \/ from = PreStart /\ to = Start
    \/ from = Start /\ to = StartRow
    \/ from = NextRow /\ to = StartRow
    \/ from = StartRow /\ to = IdctSlow
    \/ from = PreIdctSlow /\ to \in {IdctSlow, NextRow}
    \/ from = IdctSlow /\ to = DataCount(1)
    \/ IsDataCount(from) /\ to \in {DataCount(from.n + 1), PreIdctSlow, NextRow}

\* C24: Transition relation.  From PreStart, whatever the pages and the
\* AEX-Notify setting, every change of the state is one of PreStart->Start,
\* Start->StartRow, NextRow->StartRow, StartRow->IdctSlow,
\* PreIdctSlow->IdctSlow, PreIdctSlow->NextRow, IdctSlow->DataCount(1),
\* DataCount(n)->DataCount(n+1), DataCount(n)->PreIdctSlow,
\* DataCount(n)->NextRow; StartIdctSlow is never reached, and PreStart and
\* Start are never entered again.
C24_TransitionRelation ==
    [][/\ state' # state => ListedChange(state, state')
       /\ state' # StartIdctSlow
       /\ state # PreStart => state' \notin {PreStart, Start} \/ state' = state]_vars

\* the machine has come back to PreIdctSlow in the second row
C24_Witness ==
    /\ state = PreIdctSlow
    /\ reconstruct.current_row >= 1
    /\ NumBlocks(reconstruct) >= 2

(***************************************************************************)
(* The size of the rendered bitmap (Spec)                                  *)
(***************************************************************************)
\* the rows of channel 0 up to and including the row being filled
RowsOfChannel0 == reconstruct.reconstructed_buffer[1]

\* C25: Rendered size.  reconstructed_size returns as width the largest
\* length of a row of channel 0 and as height current_row, so the rows
\* 0 .. current_row - 1 are rendered and the row being filled, of index
\* current_row, is not.
C25_RenderedSize ==
    /\ Len(RowsOfChannel0) = reconstruct.current_row + 1
    /\ reconstructed_size(reconstruct).height = reconstruct.current_row
    /\ \A i \in DOMAIN RowsOfChannel0 :
           Len(RowsOfChannel0[i]) <= reconstructed_size(reconstruct).width
    /\ RowsOfChannel0 # <<>> =>
           \E i \in DOMAIN RowsOfChannel0 :
               Len(RowsOfChannel0[i]) = reconstructed_size(reconstruct).width
    /\ {px[2] : px \in bitmap_pixels(reconstruct)} \subseteq 0..(reconstruct.current_row - 1)
    /\ reconstructed_size(reconstruct).width > 0 =>
           {px[2] : px \in bitmap_pixels(reconstruct)} = 0..(reconstruct.current_row - 1)

\* a second row is being filled and is longer than the first: the width
\* comes from the row that is not rendered
C25_Witness ==
    /\ reconstruct.current_row = 1
    /\ Len(RowsOfChannel0[2]) > Len(RowsOfChannel0[1])
    /\ Len(RowsOfChannel0[1]) > 0
    /\ reconstructed_size(reconstruct) = [width |-> Len(RowsOfChannel0[2]), height |-> 1]

(***************************************************************************)
(* Revocation and restoration by the fault handler (Spec)                  *)
(***************************************************************************)
\* the pages of the ranges of the successors of the current state
NextRangePages ==
    UNION {PagesIn(next_pages(state, has_aexnotify)[i]) :
               i \in DOMAIN next_pages(state, has_aexnotify)}

C27_RestoreOnFault ==
    /\ Len(working_set) <= 2
    /\ (mode = "enclave" /\ restored_last # {}) =>
           /\ prev_page \in restored_last
           /\ restored_last \cap revoked = {}
           /\ ~has_aexnotify => restored_last = {prev_page} /\ working_set = <<>>
           /\ has_aexnotify =>
                  /\ working_set = fault_hist
                  /\ working_set[Len(working_set)] = prev_page
                  /\ restored_last = SeqRange(working_set)

\* with AEX-Notify, a third fault has pushed the first page out of the
\* working set
C27_Witness ==
    /\ mode = "enclave" /\ has_aexnotify
    /\ Len(working_set) = 2 /\ working_set[1] # working_set[2]
    /\ restored_last = SeqRange(working_set)
    /\ IsDataCount(state)
    /\ 63 \notin restored_last

(***************************************************************************)
(* The replacement rule of the PAM mirror (SpecPam)                        *)
(***************************************************************************)
\* the pages whose value is > 0 and >= new_counter - 1
Recent(buffer, new_counter) ==
    {q \in 0..(Len(buffer) - 1) : buffer[q + 1] > 0 /\ buffer[q + 1] >= new_counter - 1}

\* the value of a slot: the value of its page, 0 for a slot holding page 0
SlotValue(slot, buffer) == IF slot.page = 0 THEN 0 ELSE buffer[slot.page + 1]

\* the first slot of smallest value
Victim(active, buffer) ==
    CHOOSE i \in DOMAIN active :
        /\ \A j \in DOMAIN active : SlotValue(active[i], buffer) <= SlotValue(active[j], buffer)
        /\ \A j \in DOMAIN active :
               SlotValue(active[j], buffer) = SlotValue(active[i], buffer) => i <= j

\* the rule applied to the pages of todo in ascending order
RECURSIVE Replaced(_, _, _)
Replaced(active, buffer, todo) ==
    IF todo = {} \/ active = <<>> THEN active
    ELSE LET q == CHOOSE x \in todo : \A y \in todo : x <= y
             held == \E i \in DOMAIN active : active[i].page = q
             entered == [active EXCEPT ![Victim(active, buffer)] =
                            [read |-> TRUE, write |-> TRUE, execute |-> TRUE, page |-> q]]
         IN  Replaced(IF held THEN active ELSE entered, buffer, todo \ {q})

\* C28: PAM replacement rule.  update_pam changes nothing when the counter
\* read equals the mirrored counter.  Otherwise the pages whose value in
\* pam_buffer is > 0 and >= new_counter - 1 are taken in ascending order:
\* a page already in pam_active changes nothing; another page overwrites,
\* with read, write and execute all true, the first slot whose page has
\* the smallest value (0 for a slot holding page 0).  No other page enters
\* pam_active in that step.
C28_ReplacementRule ==
    [][pam_last' = "update" =>
          IF enc_counter = pam.pam_counter
          THEN pam' = pam
          ELSE /\ pam'.pam_active =
                      Replaced(pam.pam_active, pam'.pam_buffer,
                               Recent(pam'.pam_buffer, enc_counter))
               /\ \A i \in DOMAIN pam.pam_active :
                      pam'.pam_active[i] # pam.pam_active[i] =>
                          /\ pam'.pam_active[i].page \in Recent(pam'.pam_buffer, enc_counter)
                          /\ pam'.pam_active[i].page + 1 \in DOMAIN enc_pam
                          /\ enc_pam[pam'.pam_active[i].page + 1] >= enc_counter - 1]_vars

\* page 3 has taken the slot of page 1, the page of smallest value, and
\* page 2 has kept its slot
C28_Witness ==
    /\ pam_last = "update"
    /\ Len(pam.pam_active) = 2
    /\ pam.pam_active[1].page = 3 /\ pam.pam_active[2].page = 2
    /\ pam.pam_buffer[2] = 1 /\ pam.pam_buffer[3] = 2 /\ pam.pam_buffer[4] = 3

(***************************************************************************)
(* The size of the PAM mirror (SpecTrap)                                   *)
(***************************************************************************)
\* C29: the PAM mirror holds one 64-bit counter per enclave page: the
\* length of pam_buffer equals num_pages, the number of slots of the
\* page-table shadow.
C29_OneCounterPerPage ==
    Len(pam.pam_buffer) = Len(page_table_map)

(***************************************************************************)
(* The effects of the attacker's steps (SpecTrap)                          *)
(***************************************************************************)
\* C30: Attacker step effects, at every trap after the priming one.
\* handle_step clears the observations for Stealthy and leaves them as
\* they are for the other three attackers, and never changes live_pages.
\* handle_interrupt for PageFault replaces live_pages by the page numbers
\* of all the pages of the sample, whether they hit in the TLB or not, and
\* clears the observations; for DebugSingleStep and SingleStep it clears the
\* observations; for Stealthy it changes nothing.
C30_AttackerEffects ==
    [][(trap_count' = trap_count + 1 /\ ~first_run) =>
          LET sample == pt_pages'
              seen == obs_update(pte_observations, MissingPages(sample, hw_tlb))
              stepped == handle_step(attacker, seen)
              r == handle_interrupt(attacker, sample, stepped)
          IN  /\ stepped = IF attacker.kind = "Stealthy" THEN {} ELSE seen
              /\ attacker.kind = "PageFault" =>
                     /\ r.attacker.live_pages = [i \in 1..Len(sample) |-> sample[i].page]
                     /\ r.attacker.kind = "PageFault"
                     /\ r.attacker.observe_ptes = attacker.observe_ptes
                     /\ r.observations = {}
              /\ attacker.kind \in {"DebugSingleStep", "SingleStep"} =>
                     r.attacker = attacker /\ r.observations = {}
              /\ attacker.kind = "Stealthy" =>
                     r.attacker = attacker /\ r.observations = stepped
              /\ ~trap_interrupt' =>
                     attacker' = attacker /\ pte_observations' = stepped
              /\ trap_interrupt' =>
                     /\ attacker' = r.attacker
                     /\ no_prefetch => pte_observations' = r.observations]_vars

\* a page-fault attacker has interrupted on a sample of two pages of
\* which one hit in the TLB, and both are live
C30_Witness ==
    /\ attacker.kind = "PageFault" /\ trap_interrupt
    /\ Len(pt_pages) = 2 /\ Len(attacker.live_pages) = 2
    /\ Cardinality(trap_missing) = 1

(***************************************************************************)
(* The main trace of the trap handler (SpecTrap)                           *)
(***************************************************************************)
\* C31: frame emission.  At every trap after the priming one a frame is
\* written to the main trace iff the attacker is Stealthy or the attacker can
\* trigger an interrupt at that trap: DebugSingleStep writes a frame at every
\* trap, Stealthy writes a frame at every trap and never interrupts, and
\* SingleStep and PageFault write no frame at a trap where they cannot
\* interrupt.
C31_FrameEmission ==
    [][(trap_count' = trap_count + 1 /\ ~first_run) =>
          LET written == dumper'.ts = dumper.ts + 1
          IN  /\ written <=> (attacker.kind = "Stealthy" \/ trap_interrupt')
              /\ ~written => dumper' = dumper
              /\ attacker.kind = "DebugSingleStep" => written
              /\ attacker.kind = "Stealthy" => written /\ ~trap_interrupt'
              /\ (attacker.kind \in {"SingleStep", "PageFault"} /\ ~trap_interrupt')
                     => ~written]_vars

\* a single-stepping attacker has seen two traps after the priming one: it
\* interrupted at one, which wrote a frame, and not at the other
C31_Witness ==
    /\ attacker.kind = "SingleStep"
    /\ trap_count = 3
    /\ dumper.ts = 1
    /\ ~trap_interrupt

\* the accesses of S merged page by page: one access per page, with each
\* permission that some access of S to that page has
PerPageUnion(S) ==
    {[page |-> p,
      read |-> \E a \in S : a.page = p /\ a.read,
      write |-> \E a \in S : a.page = p /\ a.write,
      execute |-> \E a \in S : a.page = p /\ a.execute] : p \in {a.page : a \in S}}

\* C32: observed content.  When a frame is written, the PageFault attacker
\* with observe_ptes = false writes exactly the accesses of the current
\* sample that miss in the simulated TLB and whose page is not in live_pages,
\* live_pages being those before this trap's interrupt handling; every other
\* attacker, and PageFault with observe_ptes = true, writes the accumulated
\* observation map: the union page by page of what was recorded since the
\* last clear and of the current misses, which covers the accesses
\* prefetched at the previous trap when that trap interrupted.
C32_ObservedContent ==
    [][(trap_count' = trap_count + 1 /\ ~first_run /\ dumper'.ts = dumper.ts + 1) =>
          LET items == dumper'.frame.items
          IN  IF attacker.kind = "PageFault" /\ ~attacker.observe_ptes
              THEN items = {a \in trap_missing' :
                                a.page \notin SeqRange(attacker.live_pages)}
              ELSE /\ items = PerPageUnion(pte_observations \cup trap_missing')
                   /\ (trap_interrupt /\ ~no_prefetch) =>
                          \A a \in SeqRange(PrefetchPages(pam, layout)) :
                              \E item \in items : covers(item, a)]_vars

\* a page-fault attacker that does not observe the page table entries wrote
\* a frame at an interrupt where one missing page was live and was left out
C32_Witness ==
    /\ attacker.kind = "PageFault" /\ ~attacker.observe_ptes
    /\ trap_interrupt
    /\ dumper.ts = 2
    /\ \E a \in trap_missing : a.page \in trap_entry.live
    /\ dumper.frame.items # {}
    /\ dumper.frame.items # trap_missing

\* a single-stepping attacker wrote a frame that holds the code page
\* prefetched at the interrupt before
C32_WitnessAccumulated ==
    /\ attacker.kind = "SingleStep"
    /\ dumper.ts = 2
    /\ \E item \in dumper.frame.items : item.page = layout.code_page

(***************************************************************************)
(* The simulated TLB at a trap (SpecTrap)                                  *)
(***************************************************************************)
\* the accesses that a TLB holds
TlbEntries(tlb) ==
    IF tlb.kind = "Perfect" THEN tlb.pages
    ELSE UNION {{tlb.sets[i].ways[j].page : j \in 1..Len(tlb.sets[i].ways)} :
                    i \in 1..Len(tlb.sets)}

HighWires(self) == {i \in 0..(Len(self.state) - 1) : self.state[i + 1]}

\* the pages that occur in items with read permission
ReadableIn(items) == {items[k].page : k \in {j \in 1..Len(items) : items[j].read}}

\* C34: trace diffs.  After write_page_accesses(items) in a step, the wire
\* of page i is high iff page i occurs in items with read permission; one
\* value change is written for exactly each wire whose value differs from
\* the step before, and it carries the new value; writing the same set twice
\* in a row writes no change; and the step ends by advancing the timestamp
\* by exactly 1.
C34_TraceDiffs ==
    [][vcd'.ts # vcd.ts =>
          LET differs == {i \in 0..(MaxWires - 1) : vcd'.state[i + 1] # vcd.state[i + 1]}
              changes == vcd'.changes
          IN  /\ HighWires(vcd') = ReadableIn(vcd_items')
              /\ {changes[k].wire : k \in 1..Len(changes)} = differs
              /\ Len(changes) = Cardinality(differs)
              /\ \A k \in 1..Len(changes) :
                     changes[k].value = vcd'.state[changes[k].wire + 1]
              /\ ReadableIn(vcd_items') = HighWires(vcd) => changes = <<>>
              /\ vcd'.ts = vcd.ts + 1
              /\ vcd'.stamp = vcd'.ts]_vars

\* the second step wrote a readable page and an unreadable one, with
\* another wire high before: one wire rose, one fell
C34_Witness ==
    /\ vcd.ts = 2
    /\ Len(vcd.changes) = 2
    /\ \E k \in 1..2 : vcd.changes[k].value /\ ~vcd.changes[3 - k].value
    /\ Len(vcd_items) = 2
    /\ \E k \in 1..2 : ~vcd_items[k].read

\* the same set of pages was written twice in a row: no change, and the
\* timestamp still advanced
C34_WitnessSameSet ==
    /\ vcd.ts = 2
    /\ ReadableIn(vcd_items) # {}
    /\ vcd.changes = <<>>

(***************************************************************************)
(* Instrumentation drift (SpecPam)                                         *)
(***************************************************************************)
\* the pages of the enclave's map with a value that update_pam takes as
\* recent under the counter read
RecentInEnclave ==
    {q \in 0..(Len(enc_pam) - 1) :
         enc_pam[q + 1] > 0 /\ enc_pam[q + 1] >= enc_counter - 1}

\* C35: instrumentation drift is not fatal.  If the counter read from the
\* enclave differs from the mirrored counter and no page of the map has a
\* value > 0 and >= new_counter - 1, update_pam leaves pam_active unchanged
\* and does not advance the mirrored counter; the mirrored counter then
\* still differs from the enclave's, so the following update_pam takes the
\* changed-counter branch again, and that branch reads the whole map into
\* pam_buffer.
C35_DriftNotFatal ==
    [][pam_last' = "update" =>
          /\ (enc_counter # pam.pam_counter /\ RecentInEnclave = {}) =>
                 /\ pam'.pam_active = pam.pam_active
                 /\ pam'.pam_counter = pam.pam_counter
                 /\ pam'.pam_counter # enc_counter'
          /\ enc_counter # pam.pam_counter =>
                 \A i \in DOMAIN enc_pam : pam'.pam_buffer[i] = enc_pam[i]]_vars

\* the mirror holds a page and the counter 2; the enclave's counter went on
\* to 4 without a stamp, and update_pam left the mirror as it was
C35_Witness ==
    /\ pam_last = "update"
    /\ ActivePages # {}
    /\ pam.pam_counter = 2 /\ enc_counter = 4
    /\ RecentInEnclave = {}

(***************************************************************************)
(* The block being counted when the run ends (Spec)                        *)
(***************************************************************************)
\* C36: a block still being counted when the fault sequence ends is never
\* committed.  With the state machine driving the reconstruction, the number
\* of committed blocks always equals the number of transitions from a
\* DataCount state to a non-DataCount state; every other step, the end of
\* the run included, appends nothing to the buffer and leaves min_data and
\* max_data as they are, so a run that ends in DataCount(n) saves an image
\* without n.
C36_PendingBlockDropped ==
    /\ [](mode # "ocalls" => NumBlocks(reconstruct) = dc_exits)
    /\ [][(mode # "ocalls" /\ ~(IsDataCount(state) /\ ~IsDataCount(state'))) =>
              /\ \A c \in 1..reconstruct.num_colors :
                     reconstruction(reconstruct', c) = reconstruction(reconstruct, c)
              /\ reconstruct'.min_data = reconstruct.min_data
              /\ reconstruct'.max_data = reconstruct.max_data]_vars
    /\ [][(run_ended' /\ ~run_ended) => reconstruct' = reconstruct]_vars

\* the run ended in DataCount(2) after one block of count 1 was committed:
\* the buffer holds that block only and max_data is still 1
C36_Witness ==
    /\ run_ended /\ mode # "ocalls"
    /\ IsDataCount(state) /\ state.n = 2
    /\ dc_exits = 1
    /\ CommittedCounts(reconstruct) = {1}
    /\ reconstruct.max_data = 1 /\ reconstruct.min_data = 1

(***************************************************************************)
(* The shape of pam_active (SpecPam)                                       *)
(***************************************************************************)
\* a slot as PAM::new made it: page 0 with no permission
Unfilled(slot) == slot.page = 0 /\ ~slot.read /\ ~slot.write /\ ~slot.execute

\* a slot with every permission
Filled(slot) == slot.read /\ slot.write /\ slot.execute

\* C37: pam_active shape.  In every reachable state pam_active has the
\* pws_size slots it was created with; a slot is either as PAM::new made
\* it, page 0 with no permission, or was filled by update_pam and has read,
\* write and execute all true; no non-zero page occupies two slots; and page
\* 0 is not told apart from an unfilled slot: while an unfilled slot
\* remains, a recently stamped page 0 counts as already present and fills no
\* slot.
C37_PamActiveShape ==
    /\ [](LET active == pam.pam_active
          IN  /\ Len(active) \in 1..MaxPws
              /\ \A i \in DOMAIN active : Unfilled(active[i]) \/ Filled(active[i])
              /\ \A i, j \in DOMAIN active :
                     (i # j /\ active[i].page = active[j].page)
                         => Unfilled(active[i]) /\ Unfilled(active[j])
              /\ (\E i \in DOMAIN active : Filled(active[i]) /\ active[i].page = 0)
                     => \A j \in DOMAIN active : ~Unfilled(active[j]))
    /\ [][Len(pam'.pam_active) = Len(pam.pam_active)]_vars
    /\ [][(pam_last' = "update"
           /\ \E i \in DOMAIN pam.pam_active : Unfilled(pam.pam_active[i])) =>
              \A i \in DOMAIN pam'.pam_active :
                  pam'.pam_active[i].page = 0 => Unfilled(pam'.pam_active[i])]_vars

\* page 0 was stamped last and update_pam took the counter, yet of the two
\* slots one holds page 2 and the other is still unfilled
C37_Witness ==
    /\ pam_last = "update"
    /\ pam.pam_counter = enc_counter
    /\ pam.pam_buffer[1] > 0 /\ pam.pam_buffer[1] >= enc_counter - 1
    /\ Len(pam.pam_active) = 2
    /\ Filled(pam.pam_active[1]) /\ pam.pam_active[1].page = 2
    /\ Unfilled(pam.pam_active[2])

\* with one slot, page 0 has taken the slot that page 1 filled before
C37_WitnessPageZeroFilled ==
    /\ pam_last = "update"
    /\ Len(pam.pam_active) = 1
    /\ Filled(pam.pam_active[1]) /\ pam.pam_active[1].page = 0

(***************************************************************************)
(* The unfilled PAM slots in the prefetch (SpecTrap)                       *)
(***************************************************************************)
\* the pages that the ways of set 0 hold, least recently used first
SetZeroPages(tlb) == [k \in 1..Len(tlb.sets[1].ways) |-> tlb.sets[1].ways[k].page.page]

\* C38: the prefetch inserts every slot of pam_active into the simulated
\* TLB, unfilled slots included.  At an interrupt with prefetch enabled and
\* at least one unfilled slot, an entry for page 0 with no permission is
\* inserted: a Perfect TLB holds it afterwards; a set-associative TLB, once
\* the slots of pam_active are inserted into the flushed TLB, holds it in a
\* way of set 0, within the capacity of that set with the filled slots that
\* map to set 0, and the rest of the prefetch is inserted on top of that.
C38_UnfilledSlotsPrefetched ==
    [][(/\ trap_count' = trap_count + 1 /\ ~first_run
        /\ trap_interrupt' /\ ~no_prefetch
        /\ \E i \in DOMAIN pam'.pam_active : Unfilled(pam'.pam_active[i])) =>
          LET slots == pam'.pam_active
              after_pam == update(flush(hw_tlb), slots)
              all == PrefetchPages(pam', layout)
              rest == SubSeq(all, Len(slots) + 1, Len(all))
              set0 == after_pam.sets[1]
          IN  /\ hw_tlb.kind = "Perfect" => NoAccess \in hw_tlb'.pages
              /\ hw_tlb.kind = "SetAssociative" =>
                     /\ set0.ways # <<>>
                     /\ set0.ways[Len(set0.ways)] = [page |-> NoAccess, valid |-> TRUE]
                     /\ Len(set0.ways) =
                            Min2(set0.capacity,
                                 1 + Cardinality({i \in DOMAIN slots :
                                        /\ Filled(slots[i])
                                        /\ slots[i].page % hw_tlb.num_sets = 0}))
                     /\ hw_tlb' = update(after_pam, rest)]_vars

\* a TLB of two sets and three ways after an interrupt with page 2 in the
\* PAM and one slot unfilled: set 0 holds the entry of page 0, the code page
\* and the PAM page, and the entry of page 2 was evicted
C38_Witness ==
    /\ trap_interrupt /\ ~no_prefetch
    /\ hw_tlb.kind = "SetAssociative" /\ hw_tlb.ways_per_set = 3
    /\ Filled(pam.pam_active[1]) /\ pam.pam_active[1].page = 2
    /\ Unfilled(pam.pam_active[2])
    /\ SetZeroPages(hw_tlb) = <<0, layout.code_page, layout.pam_page>>
    /\ hw_tlb.sets[1].ways[1].page = NoAccess

(***************************************************************************)
(* The Stealthy attacker (SpecTrap)                                        *)
(***************************************************************************)
\* C39: under the Stealthy attacker the simulated TLB is never flushed and
\* nothing is ever prefetched: no trap interrupts, the TLB gains the sampled
\* accesses only, no set of a set-associative TLB loses a way, and the
\* observation map is empty after every trap.  With a Perfect TLB the set
\* of accesses that the TLB covers therefore only grows, and each distinct
\* PageAccess (page and permission bits) is written to the main trace in at
\* most one frame over the whole run.
C39_StealthyNeverFlushes ==
    [][(trap_count' = trap_count + 1 /\ ~first_run /\ attacker.kind = "Stealthy") =>
          LET items == dumper'.frame.items
          IN  /\ ~trap_interrupt'
              /\ attacker' = attacker
              /\ pte_observations' = {}
              /\ TlbEntries(hw_tlb') \subseteq TlbEntries(hw_tlb) \cup SeqRange(pt_pages')
              /\ hw_tlb.kind = "SetAssociative" =>
                     \A i \in DOMAIN hw_tlb.sets :
                         Len(hw_tlb'.sets[i].ways) >= Len(hw_tlb.sets[i].ways)
              /\ hw_tlb.kind = "Perfect" =>
                     /\ hw_tlb.pages \subseteq hw_tlb'.pages
                     /\ \A a \in PageAccessValues : test(hw_tlb, a) => test(hw_tlb', a)
                     /\ items \cap frames_seen = {}
                     /\ items \subseteq hw_tlb'.pages]_vars

\* the Stealthy attacker with a Perfect TLB after three traps: the read of
\* page 1 was written in the first frame, and the second frame holds only
\* the write to page 1 although page 1 was read again
C39_Witness ==
    /\ attacker.kind = "Stealthy" /\ hw_tlb.kind = "Perfect"
    /\ trap_count = 3 /\ dumper.ts = 2
    /\ Cardinality(frames_seen) = 2
    /\ Cardinality(dumper.frame.items) = 1
    /\ \E a \in dumper.frame.items : a.page = 1 /\ a.write
    /\ Cardinality(hw_tlb.pages) = 2

(***************************************************************************)
(* Accesses that the simulated TLB covers (SpecTwin)                       *)
(***************************************************************************)
\* the accesses that a TLB covers, among those to the pages of the enclave
\* and of the layout
TwinCovered(tlb) ==
    {a \in [read : BOOLEAN, write : BOOLEAN, execute : BOOLEAN,
            page : 0..(tw_cfg.layout.pam_page + 1)] : test(tlb, a)}

\* C40: with the SingleStep attacker and the Perfect TLB, a trap whose
\* accessed pages are all covered by the simulated TLB writes no frame,
\* leaves the observation map unchanged and does not change which accesses
\* the TLB covers.  Hence two runs with the same PAM contents and stack
\* pointer that agree at every trap on the accesses that miss the TLB, and
\* differ only in accesses that the TLB covers at that trap, write the same
\* main trace.
C40_Blindness ==
    /\ [][(tw_traps' = tw_traps + 1 /\ ~tw_a.first_run
           /\ \A a \in SeqRange(tw_a'.pt_pages) : test(tw_a.hw_tlb, a)) =>
              /\ tw_a'.dumper = tw_a.dumper
              /\ tw_trace_a' = tw_trace_a
              /\ tw_a'.pte_observations = tw_a.pte_observations
              /\ TwinCovered(tw_a'.hw_tlb) = TwinCovered(tw_a.hw_tlb)]_vars
    /\ [](tw_agree => /\ tw_trace_a = tw_trace_b
                      /\ tw_a.dumper = tw_b.dumper
                      /\ tw_a.pte_observations = tw_b.pte_observations
                      /\ TwinCovered(tw_a.hw_tlb) = TwinCovered(tw_b.hw_tlb))

\* the two runs agreed on the missing accesses at every trap and wrote one
\* frame each; at the last trap the first run sampled accesses that its TLB
\* covered, the second run sampled other accesses, and neither wrote a frame
C40_Witness ==
    /\ tw_agree /\ tw_differed
    /\ tw_traps = MaxTwinTraps
    /\ Len(tw_trace_a) = 1 /\ Len(tw_trace_b) = 1
    /\ tw_a.pt_pages # <<>>
    /\ tw_a.pt_pages # tw_b.pt_pages
    /\ \A a \in SeqRange(tw_a.pt_pages) : a \in TwinCovered(tw_a.hw_tlb)

====
